---- MODULE Spec2Model ----
(***************************************************************************)
(* Task-routing and state-management core of fastchain.                    *)
(*                                                                         *)
(*   AgentRegistry  (src/src/agents/registry.py)      the agent catalog    *)
(*   DecisionMaker  (src/src/routing/decision_maker.py) capability routing *)
(*                                                                         *)
(* Python dicts are functions with a finite domain of string keys; the     *)
(* catalog (an insertion-ordered dict) is a sequence of name/meta entries. *)
(* Rates (success_rate, load, scores) are fixed-point numbers with         *)
(* denominator LoadDivisor, so 0.3 is 3000 and 1.0 is 10000; float         *)
(* rounding is below the resolution of the model.                          *)
(***************************************************************************)
EXTENDS Integers, Sequences, FiniteSets, TLC

VARIABLES
    agents,      \* AgentRegistry._agents: the in-memory catalog
    file,        \* the JSON file at AgentRegistry._file_path
    clock,       \* the wall clock read by datetime.utcnow()/now()
    failures,    \* storage writes that failed so far
    ret,         \* what the last completed call returned or raised
    instance,    \* AgentRegistry._instance: 0 is None, else the object's id
    objects,     \* AgentRegistry objects constructed so far
    pc,          \* per thread: its position inside the call it runs
    call,        \* per thread: the call it runs and its arguments
    outcome,     \* per thread: what its call returned or raised
    start,       \* catalog and file when the concurrent calls began
    heap,        \* the dict objects that callers and the catalog refer to
    store,       \* ContextManager._context_store (in-memory backend)
    redis,       \* the hashes held by the Redis server (Redis backend)
    time,        \* the clock read by time.time()
    delivered,   \* per listener: the events it was called with
    lock,        \* ContextManager._lock: "free" or the thread holding it
    tools,       \* ToolRegistry._tools
    executed,    \* per tool instance: the execute calls made and how many failed
    chains,      \* ToolRegistry._chain_definitions
    version_history,  \* ToolRegistry._version_history
    tool_stats,  \* ToolDiscovery.performance_history["tools"]
    patterns     \* ToolDiscovery.tool_patterns["patterns"]

vars == <<agents, file, clock, failures, ret, instance, objects, pc, call, outcome, start,
          heap, store, redis, time, delivered, lock, tools, executed, chains,
          version_history, tool_stats, patterns>>

regVars == <<agents, file, clock, failures, ret>>
singletonVars == <<instance, objects>>
threadVars == <<pc, call, outcome, start>>
catalogVars == <<agents, file, clock, failures>>
aliasVars == <<heap>>
ctxVars == <<store, redis, time, delivered, lock>>
toolVars == <<tools, executed, chains, version_history, tool_stats, patterns>>
extVars == <<aliasVars, ctxVars, toolVars>>

---------------------------------------------------------------------------
(* Bounds of the model. *)

MaxClock == 2
MaxWriteFailures == 1
MaxObjects == 3

(* Program constants. *)

LoadDivisor == 10000
WeightPerformance == 6
WeightLoad == 4
DefaultRequestCount == 0
DefaultResponseTime == 100
DefaultLoad == 10000
DefaultPerformance == 5000

AgentIds == {"agent1", "agent2"}
Capabilities == {"intent", "chat", "unknown_capability"}
Threads == {"t1", "t2"}

---------------------------------------------------------------------------
(* Python dict and ordered-dict primitives. *)

EmptyDict == <<>>

Has(d, k) == k \in DOMAIN d

DictGet(d, k, default) == IF k \in DOMAIN d THEN d[k] ELSE default

\* dict.update(u): shallow merge, the keys of u win.
DictUpdate(d, u) ==
    [k \in DOMAIN d \cup DOMAIN u |-> IF k \in DOMAIN u THEN u[k] ELSE d[k]]

InSeq(x, s) == \E i \in DOMAIN s : s[i] = x

EmptyCatalog == <<>>

Names(cat) == {cat[i].name : i \in DOMAIN cat}

IndexOf(cat, name) == CHOOSE i \in DOMAIN cat : cat[i].name = name

MetaOf(cat, name) == cat[IndexOf(cat, name)].meta

\* self._agents[name] = meta: an existing key keeps its position.
SetItem(cat, name, meta) ==
    IF name \in Names(cat)
    THEN [cat EXCEPT ![IndexOf(cat, name)].meta = meta]
    ELSE Append(cat, [name |-> name, meta |-> meta])

\* del self._agents[name]
DelItem(cat, name) == SelectSeq(cat, LAMBDA e : e.name # name)

Min(a, b) == IF a <= b THEN a ELSE b

---------------------------------------------------------------------------
(* Values the callers supply. *)

PerfDict(items) == [type |-> "dict", items |-> items]
PerfFloat(v) == [type |-> "float", value |-> v]

\* Metadata passed to register_agent.
MetaInputs ==
    { \* explicit load, success rate only: score 0.6*0.9 + 0.4*0.7
      ("capabilities" :> <<"intent">>) @@ ("status" :> "active")
        @@ ("load" :> 3000) @@ ("performance" :> PerfDict("success_rate" :> 9000)),
      \* derived load 0*100/10000 = 0: score 0.6*0.7 + 0.4*1.0, a tie with the first
      ("capabilities" :> <<"intent", "chat">>) @@ ("status" :> "active")
        @@ ("performance" :> PerfDict(("success_rate" :> 7000)
              @@ ("request_count" :> 0) @@ ("response_time_ms" :> 100))),
      \* derived load 200*100/10000 = 2.0, clamped to 1.0
      ("capabilities" :> <<"intent", "chat">>) @@ ("status" :> "active")
        @@ ("performance" :> PerfDict(("success_rate" :> 7000)
              @@ ("request_count" :> 200) @@ ("response_time_ms" :> 100))),
      \* no load and nothing to derive it from
      ("capabilities" :> <<"intent">>) @@ ("status" :> "active")
        @@ ("performance" :> PerfDict("success_rate" :> 9000)),
      \* no performance block at all
      ("capabilities" :> <<"chat">>) @@ ("status" :> "active") @@ ("load" :> 1000),
      \* performance given as a bare number, no load
      ("capabilities" :> <<"chat">>) @@ ("status" :> "active")
        @@ ("performance" :> PerfFloat(8000)),
      \* no status: register_agent defaults it
      ("capabilities" :> <<"intent">>) @@ ("load" :> 1000)
        @@ ("performance" :> PerfDict("success_rate" :> 9500)) }

\* Partial metadata passed to update_agent.
UpdateInputs ==
    { "status" :> "active",
      "status" :> "inactive",
      "load" :> 8000,
      "performance" :> PerfDict("request_count" :> 50) }

---------------------------------------------------------------------------
(* AgentRegistry: persistence. *)

MissingFile == [state |-> "missing", data |-> EmptyCatalog]

\* json.dump of the catalog followed by a clean close: the file holds the
\* whole document.  For dicts with string keys holding strings, numbers and
\* lists, json.load(json.dump(x)) = x, key order included.
JsonFile(cat) == [state |-> "complete", data |-> cat]

\* open(path, "w") has truncated the file and the document is not (fully)
\* written: what is on disk is not a JSON document.
TruncatedFile == [state |-> "truncated", data |-> EmptyCatalog]

IoOutcomes == {"ok", "open_fails", "write_fails"}

\* _load_from_file: a missing file leaves {}, an unreadable one resets to {}.
load_from_file(f) ==
    IF f.state = "complete" THEN f.data ELSE EmptyCatalog

\* _save_to_file: every exception is logged and swallowed.
save_to_file(cat, f, io) ==
    CASE io = "ok"          -> JsonFile(cat)
      [] io = "open_fails"  -> f
      [] io = "write_fails" -> TruncatedFile

---------------------------------------------------------------------------
(* AgentRegistry: the catalog operations as functions of the catalog. *)

NoError == "none"
AlreadyRegistered == "ValueError: already registered"
NotRegistered == "ValueError: not registered"
NoCapableAgents == "RuntimeError: No agents found with capability"
NoActiveAgents == "RuntimeError: No active agents found with capability"
InvalidMetrics == "RuntimeError: Invalid metrics for agent"
KeyError == "KeyError"

\* The duplicate check left out.
is_agent_registered_never(cat, name) == FALSE

is_agent_registered(cat, name) == name \in Names(cat)

\* register_agent, the record it stores: the caller's metadata stamped with
\* the registration time and a defaulted status.
register_record(metadata, now) ==
    DictUpdate(metadata,
               ("registered_at" :> now) @@ ("last_updated" :> now)
                 @@ ("status" :> DictGet(metadata, "status", "initializing")))

\* The record replaced by the update instead of merged with it.
update_record_replace(old, metadata, now) ==
    DictUpdate(metadata, "last_updated" :> now)

\* update_agent, the record it leaves: a shallow merge, then last_updated.
update_record(old, metadata, now) ==
    DictUpdate(DictUpdate(old, metadata), "last_updated" :> now)

get_all_agents(cat) == cat

---------------------------------------------------------------------------
(* DecisionMaker. *)

\* get_load_metrics, one agent: the statements in the try block raise when
\* performance is not a dict (it has no .get) and no load is given.
load_raises(metadata) ==
    /\ ~Has(metadata, "load")
    /\ Has(metadata, "performance")
    /\ metadata["performance"].type # "dict"

load_of(metadata) ==
    IF Has(metadata, "load")
    THEN metadata["load"]
    ELSE LET performance == DictGet(metadata, "performance", PerfDict(EmptyDict)).items
             recent_requests == DictGet(performance, "request_count", DefaultRequestCount)
             avg_response_time == DictGet(performance, "response_time_ms", DefaultResponseTime)
         IN  Min(LoadDivisor, recent_requests * avg_response_time)

get_load_metrics(cat) ==
    LET agents_data == get_all_agents(cat) IN
    IF \E i \in DOMAIN agents_data : load_raises(agents_data[i].meta)
    THEN [error |-> InvalidMetrics, metrics |-> EmptyDict]
    ELSE [error |-> NoError,
          metrics |-> [n \in Names(agents_data) |-> load_of(MetaOf(agents_data, n))]]

\* get_performance_metrics, one agent.
performance_raises(metadata) ==
    LET performance == DictGet(metadata, "performance", PerfDict(EmptyDict)) IN
    performance.type = "dict" /\ ~Has(performance.items, "success_rate")

performance_of(metadata) ==
    LET performance == DictGet(metadata, "performance", PerfDict(EmptyDict)) IN
    IF performance.type = "dict"
    THEN performance.items["success_rate"]
    ELSE performance.value

get_performance_metrics(cat) ==
    LET agents_data == get_all_agents(cat) IN
    IF \E i \in DOMAIN agents_data : performance_raises(agents_data[i].meta)
    THEN [error |-> InvalidMetrics, metrics |-> EmptyDict]
    ELSE [error |-> NoError,
          metrics |-> [n \in Names(agents_data) |-> performance_of(MetaOf(agents_data, n))]]

SeqNames(cat) == [i \in DOMAIN cat |-> cat[i].name]

\* The status filter left out: every capable agent is a candidate.
get_candidate_agents_any_status(cat, required_capability) ==
    LET all_candidates ==
            SelectSeq(cat,
                      LAMBDA e : InSeq(required_capability,
                                       DictGet(e.meta, "capabilities", <<>>)))
    IN  IF all_candidates = <<>>
        THEN [error |-> NoCapableAgents, candidates |-> <<>>]
        ELSE [error |-> NoError, candidates |-> SeqNames(all_candidates)]

get_candidate_agents(cat, required_capability) ==
    LET agents_data == get_all_agents(cat)
        all_candidates ==
            SelectSeq(agents_data,
                      LAMBDA e : InSeq(required_capability,
                                       DictGet(e.meta, "capabilities", <<>>)))
        active_candidates ==
            SelectSeq(all_candidates,
                      LAMBDA e : DictGet(e.meta, "status", "None") = "active")
    IN  IF all_candidates = <<>>
        THEN [error |-> NoCapableAgents, candidates |-> <<>>]
        ELSE IF active_candidates = <<>>
        THEN [error |-> NoActiveAgents, candidates |-> <<>>]
        ELSE [error |-> NoError, candidates |-> SeqNames(active_candidates)]

\* Scores carry the denominator 10 * LoadDivisor.
calculate_agent_score(agent_id, load_metrics, performance_metrics) ==
    LET load == DictGet(load_metrics, agent_id, DefaultLoad)
        performance == DictGet(performance_metrics, agent_id, DefaultPerformance)
    IN  (WeightPerformance * performance) + (WeightLoad * (LoadDivisor - load))

\* max(items, key=score): a left-to-right scan that keeps the current best
\* unless a strictly greater key is met.
RECURSIVE MaxScan(_, _, _, _)
MaxScan(candidates, scores, i, best) ==
    IF i > Len(candidates) THEN best
    ELSE MaxScan(candidates, scores, i + 1,
                 IF scores[candidates[i]] > scores[best] THEN candidates[i] ELSE best)

\* A scan that replaces the best on an equal key too: the last maximum wins.
RECURSIVE MaxScanLast(_, _, _, _)
MaxScanLast(candidates, scores, i, best) ==
    IF i > Len(candidates) THEN best
    ELSE MaxScanLast(candidates, scores, i + 1,
                     IF scores[candidates[i]] >= scores[best] THEN candidates[i] ELSE best)

max_by_score_last(candidates, scores) == MaxScanLast(candidates, scores, 2, candidates[1])

max_by_score(candidates, scores) == MaxScan(candidates, scores, 2, candidates[1])

\* route_task up to the choice of the agent: the error it raises, or the
\* selected agent.
select_agent(cat, required_capability) ==
    LET found == get_candidate_agents(cat, required_capability)
        load_metrics == get_load_metrics(cat)
        performance_metrics == get_performance_metrics(cat)
        candidates == found.candidates
    IN  IF found.error # NoError
        THEN [error |-> found.error, value |-> "none"]
        ELSE IF load_metrics.error # NoError \/ performance_metrics.error # NoError
        THEN [error |-> InvalidMetrics, value |-> "none"]
        ELSE IF \E i \in DOMAIN candidates :
                    \/ ~Has(load_metrics.metrics, candidates[i])
                    \/ ~Has(performance_metrics.metrics, candidates[i])
        THEN [error |-> InvalidMetrics, value |-> "none"]
        ELSE LET candidate_scores ==
                     [a \in {candidates[i] : i \in DOMAIN candidates} |->
                        calculate_agent_score(a, load_metrics.metrics,
                                              performance_metrics.metrics)]
             IN  [error |-> NoError,
                  value |-> max_by_score(candidates, candidate_scores)]

---------------------------------------------------------------------------
(* The calls as functions of catalog and file: the error raised (NoError   *)
(* for a normal return) and the catalog and file the call leaves.          *)

register_agent_result(cat, f, agent_name, metadata, now, io) ==
    IF is_agent_registered(cat, agent_name)
    THEN [error |-> AlreadyRegistered, agents |-> cat, file |-> f]
    ELSE LET stored == SetItem(cat, agent_name, register_record(metadata, now))
         IN  [error |-> NoError, agents |-> stored,
              file |-> save_to_file(stored, f, io)]

update_agent_result(cat, f, agent_name, metadata, now, io) ==
    IF agent_name \notin Names(cat)
    THEN [error |-> NotRegistered, agents |-> cat, file |-> f]
    ELSE LET stored == SetItem(cat, agent_name,
                               update_record(MetaOf(cat, agent_name), metadata, now))
         IN  [error |-> NoError, agents |-> stored,
              file |-> save_to_file(stored, f, io)]

unregister_agent_result(cat, f, agent_name, io) ==
    IF agent_name \notin Names(cat)
    THEN [error |-> NotRegistered, agents |-> cat, file |-> f]
    ELSE LET stored == DelItem(cat, agent_name)
         IN  [error |-> NoError, agents |-> stored,
              file |-> save_to_file(stored, f, io)]

\* route_task: the selection, then registry.update_agent on the selected agent.
route_task_result(cat, f, required_capability, now, io) ==
    LET chosen == select_agent(cat, required_capability) IN
    IF chosen.error # NoError
    THEN [error |-> chosen.error, value |-> "none", updates |-> <<>>,
          agents |-> cat, file |-> f]
    ELSE LET updated ==
                 update_agent_result(cat, f, chosen.value,
                                     ("last_selected" :> now)
                                       @@ ("current_task" :> required_capability),
                                     now, io)
         IN  [error |-> updated.error,
              value |-> IF updated.error = NoError THEN chosen.value ELSE "none",
              updates |-> <<chosen.value>>,
              agents |-> updated.agents, file |-> updated.file]

---------------------------------------------------------------------------
(* Sequential specification: one caller, every call runs to completion.    *)

Idle == [t \in Threads |-> "idle"]
NoCall == [t \in Threads |-> [op |-> "none"]]
NoOutcome == [t \in Threads |-> "pending"]
NoStart == [agents |-> EmptyCatalog, file |-> MissingFile]

\* No session store and no tool registry constructed, no dict shared.
NoExt ==
    /\ heap = <<>>
    /\ store = EmptyDict
    /\ redis = EmptyDict
    /\ time = 0
    /\ delivered = <<>>
    /\ lock = "free"
    /\ tools = <<>>
    /\ executed = <<>>
    /\ chains = <<>>
    /\ version_history = <<>>
    /\ tool_stats = <<>>
    /\ patterns = <<>>

\* Catalogs an earlier run of the process may have left in the file.
PersistedCatalogs ==
    {EmptyCatalog}
      \cup {<<[name |-> n, meta |-> register_record(m, 0)]>> :
                n \in AgentIds, m \in MetaInputs}

InitFiles == {MissingFile, TruncatedFile} \cup {JsonFile(c) : c \in PersistedCatalogs}

\* AgentRegistry.get_instance() has run once: __init__ loaded the file.
Init ==
    /\ file \in InitFiles
    /\ agents = load_from_file(file)
    /\ clock = 0
    /\ failures = 0
    /\ ret = [op |-> "init", arg |-> "", error |-> NoError]
    /\ instance = 1
    /\ objects = 1
    /\ pc = Idle
    /\ call = NoCall
    /\ outcome = NoOutcome
    /\ start = NoStart
    /\ NoExt

\* The storage outcome of a call that writes: failures are counted.
Writes(io) ==
    /\ io = "ok" \/ failures < MaxWriteFailures
    /\ failures' = IF io = "ok" THEN failures ELSE failures + 1

\* A call that stamps the time takes time; one that raises first writes nothing.
Completes(r, io) ==
    /\ IF r.error = NoError
       THEN clock' = clock + 1 /\ Writes(io)
       ELSE io = "ok" /\ UNCHANGED <<clock, failures>>
    /\ agents' = r.agents
    /\ file' = r.file

register_agent(agent_name, metadata, io) ==
    LET r == register_agent_result(agents, file, agent_name, metadata, clock, io) IN
    /\ clock < MaxClock
    /\ Completes(r, io)
    /\ ret' = [op |-> "register_agent", arg |-> agent_name, error |-> r.error]
    /\ UNCHANGED <<singletonVars, threadVars, extVars>>

update_agent(agent_name, metadata, io) ==
    LET r == update_agent_result(agents, file, agent_name, metadata, clock, io) IN
    /\ clock < MaxClock
    /\ Completes(r, io)
    /\ ret' = [op |-> "update_agent", arg |-> agent_name, error |-> r.error]
    /\ UNCHANGED <<singletonVars, threadVars, extVars>>

unregister_agent(agent_name, io) ==
    LET r == unregister_agent_result(agents, file, agent_name, io) IN
    /\ clock < MaxClock
    /\ Completes(r, io)
    /\ ret' = [op |-> "unregister_agent", arg |-> agent_name, error |-> r.error]
    /\ UNCHANGED <<singletonVars, threadVars, extVars>>

route_task(required_capability, io) ==
    LET r == route_task_result(agents, file, required_capability, clock, io) IN
    /\ clock < MaxClock
    /\ Completes(r, io)
    /\ ret' = [op |-> "route_task", arg |-> required_capability, error |-> r.error,
               value |-> r.value, updates |-> r.updates]
    /\ UNCHANGED <<singletonVars, threadVars, extVars>>

\* DecisionMaker.get_load_metrics called on its own.
load_metrics_query ==
    LET r == get_load_metrics(agents) IN
    /\ clock < MaxClock
    /\ ret' = [op |-> "get_load_metrics", arg |-> "", error |-> r.error,
               metrics |-> r.metrics]
    /\ UNCHANGED <<agents, file, clock, failures, singletonVars, threadVars, extVars>>

Next ==
    \/ \E n \in AgentIds, m \in MetaInputs, io \in IoOutcomes : register_agent(n, m, io)
    \/ \E n \in AgentIds, m \in UpdateInputs, io \in IoOutcomes : update_agent(n, m, io)
    \/ \E n \in AgentIds, io \in IoOutcomes : unregister_agent(n, io)
    \/ \E c \in Capabilities, io \in IoOutcomes : route_task(c, io)
    \/ load_metrics_query

Spec == Init /\ [][Next]_vars

---------------------------------------------------------------------------
(* Concurrent specification: each thread runs one catalog call, statement  *)
(* by statement.  The registry takes no lock, so the threads interleave    *)
(* between any two statements that touch self._agents or the file.         *)

ConcMetaInputs == {m \in MetaInputs : Has(m, "load")}

ConcUpdateInputs == {u \in UpdateInputs : ~Has(u, "performance")}

InitConc ==
    /\ file \in InitFiles
    /\ agents = load_from_file(file)
    /\ clock = 0
    /\ failures = 0
    /\ ret = [op |-> "init", arg |-> "", error |-> NoError]
    /\ instance = 1
    /\ objects = 1
    /\ pc = Idle
    /\ call = NoCall
    /\ outcome = NoOutcome
    /\ start = [agents |-> agents, file |-> file]
    /\ NoExt

Goto(t, label) == pc' = [pc EXCEPT ![t] = label]

Raise(t, error) ==
    /\ outcome' = [outcome EXCEPT ![t] = error]
    /\ Goto(t, "done")

\* register_agent, line 119: the duplicate check.
register_check(t, agent_name, metadata) ==
    /\ pc[t] = "idle"
    /\ call' = [call EXCEPT ![t] = [op |-> "register_agent", name |-> agent_name,
                                    metadata |-> metadata]]
    /\ IF is_agent_registered(agents, agent_name)
       THEN Raise(t, AlreadyRegistered)
       ELSE Goto(t, "store") /\ UNCHANGED outcome
    /\ UNCHANGED <<regVars, singletonVars, start, extVars>>

\* register_agent, lines 123-129: stamp the metadata and store it.
register_store(t) ==
    /\ pc[t] = "store"
    /\ agents' = SetItem(agents, call[t].name, register_record(call[t].metadata, clock))
    /\ Goto(t, "save_open")
    /\ UNCHANGED <<file, clock, failures, ret, singletonVars, call, outcome, start, extVars>>

\* update_agent, line 152: the existence check.
update_check(t, agent_name, metadata) ==
    /\ pc[t] = "idle"
    /\ call' = [call EXCEPT ![t] = [op |-> "update_agent", name |-> agent_name,
                                    metadata |-> metadata]]
    /\ IF agent_name \notin Names(agents)
       THEN Raise(t, NotRegistered)
       ELSE Goto(t, "merge") /\ UNCHANGED outcome
    /\ UNCHANGED <<regVars, singletonVars, start, extVars>>

\* update_agent, line 156: self._agents[agent_name].update(metadata).
update_merge(t) ==
    /\ pc[t] = "merge"
    /\ IF call[t].name \notin Names(agents)
       THEN Raise(t, KeyError) /\ UNCHANGED agents
       ELSE /\ agents' = SetItem(agents, call[t].name,
                                 DictUpdate(MetaOf(agents, call[t].name),
                                            call[t].metadata))
            /\ Goto(t, "stamp")
            /\ UNCHANGED outcome
    /\ UNCHANGED <<file, clock, failures, ret, singletonVars, call, start, extVars>>

\* update_agent, line 157: self._agents[agent_name]["last_updated"] = now.
update_stamp(t) ==
    /\ pc[t] = "stamp"
    /\ IF call[t].name \notin Names(agents)
       THEN Raise(t, KeyError) /\ UNCHANGED agents
       ELSE /\ agents' = SetItem(agents, call[t].name,
                                 DictUpdate(MetaOf(agents, call[t].name),
                                            "last_updated" :> clock))
            /\ Goto(t, "save_open")
            /\ UNCHANGED outcome
    /\ UNCHANGED <<file, clock, failures, ret, singletonVars, call, start, extVars>>

\* unregister_agent, line 227: the existence check.
unregister_check(t, agent_name) ==
    /\ pc[t] = "idle"
    /\ call' = [call EXCEPT ![t] = [op |-> "unregister_agent", name |-> agent_name,
                                    metadata |-> EmptyDict]]
    /\ IF agent_name \notin Names(agents)
       THEN Raise(t, NotRegistered)
       ELSE Goto(t, "delete") /\ UNCHANGED outcome
    /\ UNCHANGED <<regVars, singletonVars, start, extVars>>

\* unregister_agent, line 230: del self._agents[agent_name].
unregister_delete(t) ==
    /\ pc[t] = "delete"
    /\ IF call[t].name \notin Names(agents)
       THEN Raise(t, KeyError) /\ UNCHANGED agents
       ELSE /\ agents' = DelItem(agents, call[t].name)
            /\ Goto(t, "save_open")
            /\ UNCHANGED outcome
    /\ UNCHANGED <<file, clock, failures, ret, singletonVars, call, start, extVars>>

\* _save_to_file, line 95: open(path, "w") truncates the file.
save_open(t) ==
    /\ pc[t] = "save_open"
    /\ file' = TruncatedFile
    /\ Goto(t, "save_dump")
    /\ UNCHANGED <<agents, clock, failures, ret, singletonVars, call, outcome, start, extVars>>

\* _save_to_file, line 96 and the end of the with block: the document is
\* written from the catalog as it is now and the file is closed; the call
\* then returns.
save_dump(t) ==
    /\ pc[t] = "save_dump"
    /\ file' = JsonFile(agents)
    /\ outcome' = [outcome EXCEPT ![t] = NoError]
    /\ Goto(t, "done")
    /\ UNCHANGED <<agents, clock, failures, ret, singletonVars, call, start, extVars>>

NextConc ==
    \/ \E t \in Threads, n \in AgentIds, m \in ConcMetaInputs : register_check(t, n, m)
    \/ \E t \in Threads : register_store(t)
    \/ \E t \in Threads, n \in AgentIds, m \in ConcUpdateInputs : update_check(t, n, m)
    \/ \E t \in Threads : update_merge(t)
    \/ \E t \in Threads : update_stamp(t)
    \/ \E t \in Threads, n \in AgentIds : unregister_check(t, n)
    \/ \E t \in Threads : unregister_delete(t)
    \/ \E t \in Threads : save_open(t)
    \/ \E t \in Threads : save_dump(t)

SpecConc == InitConc /\ [][NextConc]_vars

---------------------------------------------------------------------------
(* Singleton specification: threads obtain the registry, through           *)
(* AgentRegistry.get_instance() or by constructing AgentRegistry()         *)
(* directly as BaseAgent.__init__ does.  Objects are numbered from 1;      *)
(* outcome[t] is the object thread t obtained last, 0 for none, -1 when    *)
(* the constructor raised.                                                 *)

InitSingleton ==
    /\ file = MissingFile
    /\ agents = EmptyCatalog
    /\ clock = 0
    /\ failures = 0
    /\ ret = [op |-> "init", arg |-> "", error |-> NoError]
    /\ instance = 0
    /\ objects = 0
    /\ pc = Idle
    /\ call = [t \in Threads |-> 0]
    /\ outcome = [t \in Threads |-> 0]
    /\ start = NoStart
    /\ NoExt

\* AgentRegistry.__init__, line 27: the guard reads the class attribute.
init_raises == instance # 0

\* get_instance, line 43: if cls._instance is None.
get_instance_check(t) ==
    /\ pc[t] = "idle"
    /\ IF instance = 0
       THEN Goto(t, "construct") /\ UNCHANGED outcome
       ELSE outcome' = [outcome EXCEPT ![t] = instance] /\ Goto(t, "idle")
    /\ UNCHANGED <<regVars, singletonVars, call, start, extVars>>

\* get_instance, line 44, right-hand side: AgentRegistry().
get_instance_construct(t) ==
    /\ pc[t] = "construct"
    /\ IF init_raises
       THEN /\ outcome' = [outcome EXCEPT ![t] = -1]
            /\ Goto(t, "idle")
            /\ UNCHANGED <<objects, call>>
       ELSE /\ objects < MaxObjects
            /\ objects' = objects + 1
            /\ call' = [call EXCEPT ![t] = objects + 1]
            /\ Goto(t, "assign")
            /\ UNCHANGED outcome
    /\ UNCHANGED <<regVars, instance, start, extVars>>

\* get_instance, line 44, the assignment to cls._instance.
get_instance_assign(t) ==
    /\ pc[t] = "assign"
    /\ instance' = call[t]
    /\ Goto(t, "return")
    /\ UNCHANGED <<regVars, objects, call, outcome, start, extVars>>

\* get_instance, line 45: return cls._instance.
get_instance_return(t) ==
    /\ pc[t] = "return"
    /\ outcome' = [outcome EXCEPT ![t] = instance]
    /\ Goto(t, "idle")
    /\ UNCHANGED <<regVars, singletonVars, call, start, extVars>>

\* AgentRegistry() called directly: __init__ never assigns cls._instance.
construct_directly(t) ==
    /\ pc[t] = "idle"
    /\ IF init_raises
       THEN outcome' = [outcome EXCEPT ![t] = -1] /\ UNCHANGED objects
       ELSE /\ objects < MaxObjects
            /\ objects' = objects + 1
            /\ outcome' = [outcome EXCEPT ![t] = objects + 1]
    /\ UNCHANGED <<regVars, instance, pc, call, start, extVars>>

NextSingleton ==
    \/ \E t \in Threads : get_instance_check(t)
    \/ \E t \in Threads : get_instance_construct(t)
    \/ \E t \in Threads : get_instance_assign(t)
    \/ \E t \in Threads : get_instance_return(t)
    \/ \E t \in Threads : construct_directly(t)

SpecSingleton == InitSingleton /\ [][NextSingleton]_vars

---------------------------------------------------------------------------
(* Vocabulary of the claims, stated on records without the code's operators. *)

Mutators == {"register_agent", "update_agent", "unregister_agent"}

ListsCapability(metadata, c) ==
    Has(metadata, "capabilities") /\ InSeq(c, metadata["capabilities"])

IsActive(metadata) == Has(metadata, "status") /\ metadata["status"] = "active"

\* Positions of the active agents that list capability c.
ActiveCandidates(cat, c) ==
    {i \in DOMAIN cat : ListsCapability(cat[i].meta, c) /\ IsActive(cat[i].meta)}

HasSuccessRate(metadata) ==
    /\ Has(metadata, "performance")
    /\ \/ metadata["performance"].type = "float"
       \/ /\ metadata["performance"].type = "dict"
          /\ Has(metadata["performance"].items, "success_rate")

HasLoadMetrics(metadata) ==
    \/ Has(metadata, "load")
    \/ /\ Has(metadata, "performance")
       /\ metadata["performance"].type = "dict"
       /\ Has(metadata["performance"].items, "request_count")
       /\ Has(metadata["performance"].items, "response_time_ms")

ValidMetrics(metadata) == HasSuccessRate(metadata) /\ HasLoadMetrics(metadata)

SuccessRateOf(metadata) ==
    IF metadata["performance"].type = "float"
    THEN metadata["performance"].value
    ELSE metadata["performance"].items["success_rate"]

\* min(1.0, request_count * response_time_ms / 10000), in units of 1/10000.
StatedLoad(metadata) ==
    IF Has(metadata, "load")
    THEN metadata["load"]
    ELSE LET p == metadata["performance"].items
             product == p["request_count"] * p["response_time_ms"]
         IN  IF product > 10000 THEN 10000 ELSE product

\* 0.6 * success_rate + 0.4 * (1 - load), in units of 1/100000.
StatedScore(metadata) ==
    6 * SuccessRateOf(metadata) + 4 * (10000 - StatedLoad(metadata))

---------------------------------------------------------------------------
(* C1: when some active agent lists capability C and every record has      *)
(* valid metrics, route_task(C) returns an active agent listing C whose    *)
(* score 0.6*success_rate + 0.4*(1 - load) is maximal among the active     *)
(* agents listing C, and among those of maximal score the one that comes   *)
(* first in the catalog's iteration order.                                 *)
C1_RouteSelectsBest ==
    [][\A c \in Capabilities :
          ( /\ ret'.op = "route_task"
            /\ ret'.arg = c
            /\ ActiveCandidates(agents, c) # {}
            /\ \A i \in DOMAIN agents : ValidMetrics(agents[i].meta) )
          => /\ ret'.error = NoError
             /\ \E i \in ActiveCandidates(agents, c) :
                   /\ agents[i].name = ret'.value
                   /\ \A j \in ActiveCandidates(agents, c) :
                         /\ StatedScore(agents[j].meta) <= StatedScore(agents[i].meta)
                         /\ StatedScore(agents[j].meta) = StatedScore(agents[i].meta)
                               => i <= j]_vars

\* A route that returned the first of two active candidates of equal score
\* and different metrics.
C1_Witness ==
    /\ ret.op = "route_task"
    /\ ret.error = NoError
    /\ \E i, j \in ActiveCandidates(agents, ret.arg) :
          /\ i < j
          /\ agents[i].name = ret.value
          /\ ValidMetrics(agents[i].meta) /\ ValidMetrics(agents[j].meta)
          /\ StatedScore(agents[i].meta) = StatedScore(agents[j].meta)
          /\ StatedLoad(agents[i].meta) # StatedLoad(agents[j].meta)

(* C2: route_task(C) raises 'No agents found with capability' exactly when *)
(* no agent of the catalog lists C, and 'No active agents found with       *)
(* capability' exactly when some agent lists C and none of those is        *)
(* active; in both cases it returns no agent id.                           *)
C2_NoCandidateErrors ==
    [][\A c \in Capabilities :
          (ret'.op = "route_task" /\ ret'.arg = c)
          => /\ (ret'.error = NoCapableAgents)
                  <=> (\A i \in DOMAIN agents : ~ListsCapability(agents[i].meta, c))
             /\ (ret'.error = NoActiveAgents)
                  <=> ( /\ \E i \in DOMAIN agents : ListsCapability(agents[i].meta, c)
                        /\ ActiveCandidates(agents, c) = {} )
             /\ ret'.error \in {NoCapableAgents, NoActiveAgents}
                  => ret'.value = "none"]_vars

\* A route that found a capable agent, but only an inactive one.
C2_Witness ==
    /\ ret.op = "route_task"
    /\ ret.error = NoActiveAgents
    /\ \E i \in DOMAIN agents :
          /\ ListsCapability(agents[i].meta, ret.arg)
          /\ agents[i].meta["status"] = "inactive"

(* C3: if any active candidate for capability C has missing performance    *)
(* or load metrics, route_task(C) raises 'Invalid metrics for agent'       *)
(* instead of returning an agent.                                          *)
C3_AllOrNothing ==
    [][\A c \in Capabilities :
          ( /\ ret'.op = "route_task"
            /\ ret'.arg = c
            /\ \E i \in ActiveCandidates(agents, c) : ~ValidMetrics(agents[i].meta) )
          => ret'.error = InvalidMetrics]_vars

(* C4: get_load_metrics produces a load only from an explicit load or from *)
(* min(1.0, request_count * response_time_ms / 10000) over fields present  *)
(* in the record; for a record with neither it raises 'Invalid metrics'.   *)
C4_LoadNeverDefaulted ==
    ret.op = "get_load_metrics"
    => /\ (\E i \in DOMAIN agents : ~HasLoadMetrics(agents[i].meta))
             => ret.error = InvalidMetrics
       /\ ret.error = NoError
             => \A i \in DOMAIN agents :
                   ret.metrics[agents[i].name] = StatedLoad(agents[i].meta)

(* C5: a successful route_task(C) makes exactly one catalog update, on the *)
(* returned agent: it sets last_selected and current_task = C there and    *)
(* leaves that record's capabilities, status and performance and every     *)
(* other record unchanged; a failed route_task makes no catalog update.    *)
C5_RouteFrame ==
    [][ret'.op = "route_task"
       => IF ret'.error = NoError
          THEN /\ ret'.updates = <<ret'.value>>
               /\ ret'.value \in Names(agents)
               /\ Len(agents') = Len(agents)
               /\ \A i \in DOMAIN agents :
                     /\ agents'[i].name = agents[i].name
                     /\ IF agents[i].name = ret'.value
                        THEN /\ Has(agents'[i].meta, "last_selected")
                             /\ agents'[i].meta["last_selected"] = clock
                             /\ Has(agents'[i].meta, "current_task")
                             /\ agents'[i].meta["current_task"] = ret'.arg
                             /\ \A k \in {"capabilities", "status", "performance"} :
                                   /\ Has(agents'[i].meta, k) <=> Has(agents[i].meta, k)
                                   /\ Has(agents[i].meta, k)
                                         => agents'[i].meta[k] = agents[i].meta[k]
                        ELSE agents'[i] = agents[i]
          ELSE /\ ret'.updates = <<>>
               /\ agents' = agents
               /\ file' = file]_vars

\* A successful route in a catalog of two: the selected record carries the
\* task, the other record carries none.
C5_Witness ==
    /\ ret.op = "route_task"
    /\ ret.error = NoError
    /\ Len(agents) = 2
    /\ \E i, j \in DOMAIN agents :
          /\ agents[i].name = ret.value
          /\ agents[i].meta["current_task"] = ret.arg
          /\ j # i
          /\ ~Has(agents[j].meta, "current_task")

(* C6: register_agent with a registered id raises AlreadyRegistered,       *)
(* update_agent and unregister_agent with an unregistered id raise         *)
(* NotRegistered, and a rejected call leaves the in-memory catalog and the *)
(* file exactly as they were.                                              *)
C6_RejectedMutation ==
    [][\A n \in AgentIds :
          /\ (ret'.op = "register_agent" /\ ret'.arg = n /\ n \in Names(agents))
                => ret'.error = AlreadyRegistered
          /\ (ret'.op \in {"update_agent", "unregister_agent"} /\ ret'.arg = n
                /\ n \notin Names(agents))
                => ret'.error = NotRegistered
          /\ (ret'.op \in Mutators /\ ret'.arg = n /\ ret'.error # NoError)
                => agents' = agents /\ file' = file]_vars

\* A rejected duplicate registration after the catalog was written.
C6_Witness ==
    /\ ret.op = "register_agent"
    /\ ret.error = AlreadyRegistered
    /\ ret.arg \in Names(agents)
    /\ file = JsonFile(agents)

(* C7: after every register_agent, update_agent or unregister_agent that   *)
(* returns without error the file holds exactly the in-memory catalog, so  *)
(* a reload reconstructs it, also when a write to storage fails.           *)
C7_WriteThrough ==
    (ret.op \in Mutators /\ ret.error = NoError) => load_from_file(file) = agents

(* C8: at every instant, also in the middle of a mutating call, the file   *)
(* holds a complete snapshot: every change of the file installs a whole    *)
(* catalog document, never an empty or partly written one.                 *)
C8_AtomicSnapshot ==
    [][file' # file => file'.state = "complete"]_vars

AllDone == \A t \in Threads : pc[t] = "done"

\* What call c returns and leaves when it runs alone on catalog cat, file f.
CallAlone(c, cat, f) ==
    CASE c.op = "register_agent" ->
           register_agent_result(cat, f, c.name, c.metadata, clock, "ok")
      [] c.op = "update_agent" ->
           update_agent_result(cat, f, c.name, c.metadata, clock, "ok")
      [] c.op = "unregister_agent" ->
           unregister_agent_result(cat, f, c.name, "ok")

\* The calls of threads a then b, one after the other, from the start.
SerialRun(a, b) ==
    LET first == CallAlone(call[a], start.agents, start.file)
        second == CallAlone(call[b], first.agents, first.file)
    IN  [agents |-> second.agents, file |-> second.file,
         outcome |-> (a :> first.error) @@ (b :> second.error)]

(* C9: whatever the interleaving of concurrent register_agent,             *)
(* update_agent and unregister_agent calls, once they have returned the    *)
(* catalog, the file and what each call returned or raised are those of    *)
(* the calls run one after the other in some order; so of two concurrent   *)
(* registrations of the same new id exactly one succeeds.                  *)
C9_Serializable ==
    AllDone
    => \E a, b \in Threads :
          /\ a # b
          /\ agents = SerialRun(a, b).agents
          /\ file = SerialRun(a, b).file
          /\ \A t \in Threads : outcome[t] = SerialRun(a, b).outcome[t]

(* C10: at most one AgentRegistry exists per process: every caller of      *)
(* get_instance() or AgentRegistry() that obtains a registry obtains the   *)
(* same object, and a direct construction yields no second one.            *)
C10_SingleInstance ==
    /\ objects <= 1
    /\ \A t1, t2 \in Threads :
          (outcome[t1] > 0 /\ outcome[t2] > 0) => outcome[t1] = outcome[t2]

---------------------------------------------------------------------------
(* Reference specification: Python passes and stores dicts by reference.   *)
(* heap[r] is the dict object r; in this specification a catalog entry     *)
(* holds the reference of its record, and ret.value is the reference (or   *)
(* the map of references) the last call handed to the caller.              *)

MaxRefs == 2

NoValue == 0

\* What the caller writes into a dict it holds.
CallerWrites == {"status" :> "inactive", "capabilities" :> <<"chat">>}

\* The records behind the references of a catalog: what get_agent shows
\* and what json.dump writes.
Contents(cat, h) ==
    [i \in DOMAIN cat |-> [name |-> cat[i].name, meta |-> h[cat[i].meta]]]

InitAlias ==
    /\ agents = EmptyCatalog
    /\ file = MissingFile
    /\ clock = 0
    /\ failures = 0
    /\ ret = [op |-> "init", arg |-> "", error |-> NoError, value |-> NoValue]
    /\ instance = 1
    /\ objects = 1
    /\ pc = Idle
    /\ call = NoCall
    /\ outcome = NoOutcome
    /\ start = NoStart
    /\ heap = <<>>
    /\ store = EmptyDict
    /\ redis = EmptyDict
    /\ time = 0
    /\ delivered = <<>>
    /\ lock = "free"
    /\ tools = <<>>
    /\ executed = <<>>
    /\ chains = <<>>
    /\ version_history = <<>>
    /\ tool_stats = <<>>
    /\ patterns = <<>>

\* register_agent: the caller's dict is updated in place and the catalog
\* keeps a reference to that very dict.
register_agent_by_reference(agent_name, metadata) ==
    LET r == Len(heap) + 1 IN
    /\ clock < MaxClock
    /\ Len(heap) < MaxRefs
    /\ IF is_agent_registered(agents, agent_name)
       THEN /\ ret' = [op |-> "register_agent", arg |-> agent_name,
                       error |-> AlreadyRegistered, value |-> NoValue]
            /\ UNCHANGED <<agents, file, clock, heap>>
       ELSE /\ heap' = Append(heap, register_record(metadata, clock))
            /\ agents' = SetItem(agents, agent_name, r)
            /\ file' = save_to_file(Contents(agents', heap'), file, "ok")
            /\ clock' = clock + 1
            /\ ret' = [op |-> "register_agent", arg |-> agent_name,
                       error |-> NoError, value |-> r]
    /\ UNCHANGED <<failures, singletonVars, threadVars, ctxVars, toolVars>>

\* update_agent: self._agents[agent_name].update(metadata) changes the
\* record object in place.
update_agent_in_place(agent_name, metadata) ==
    /\ clock < MaxClock
    /\ IF agent_name \notin Names(agents)
       THEN /\ ret' = [op |-> "update_agent", arg |-> agent_name,
                       error |-> NotRegistered, value |-> NoValue]
            /\ UNCHANGED <<agents, file, clock, heap>>
       ELSE /\ heap' = [heap EXCEPT ![MetaOf(agents, agent_name)] =
                           update_record(@, metadata, clock)]
            /\ file' = save_to_file(Contents(agents, heap'), file, "ok")
            /\ clock' = clock + 1
            /\ ret' = [op |-> "update_agent", arg |-> agent_name,
                       error |-> NoError, value |-> NoValue]
            /\ UNCHANGED agents
    /\ UNCHANGED <<failures, singletonVars, threadVars, ctxVars, toolVars>>

\* unregister_agent: the entry goes, the dict object stays with its holders.
unregister_agent_entry(agent_name) ==
    /\ clock < MaxClock
    /\ IF agent_name \notin Names(agents)
       THEN /\ ret' = [op |-> "unregister_agent", arg |-> agent_name,
                       error |-> NotRegistered, value |-> NoValue]
            /\ UNCHANGED <<agents, file, clock>>
       ELSE /\ agents' = DelItem(agents, agent_name)
            /\ file' = save_to_file(Contents(agents', heap), file, "ok")
            /\ clock' = clock + 1
            /\ ret' = [op |-> "unregister_agent", arg |-> agent_name,
                       error |-> NoError, value |-> NoValue]
    /\ UNCHANGED <<heap, failures, singletonVars, threadVars, ctxVars, toolVars>>

\* get_agent: self._agents.get(agent_name), the stored dict itself or None.
get_agent(agent_name) ==
    /\ ret' = [op |-> "get_agent", arg |-> agent_name, error |-> NoError,
               value |-> IF agent_name \in Names(agents)
                         THEN MetaOf(agents, agent_name) ELSE NoValue]
    /\ UNCHANGED <<catalogVars, heap, singletonVars, threadVars, ctxVars, toolVars>>

\* get_all_agents: self._agents.copy(), a new map holding the same dicts.
get_all_agents_copy ==
    /\ ret' = [op |-> "get_all_agents", arg |-> "", error |-> NoError,
               value |-> get_all_agents(agents)]
    /\ UNCHANGED <<catalogVars, heap, singletonVars, threadVars, ctxVars, toolVars>>

\* The caller writes into the dict it has just passed to register_agent.
caller_mutates_metadata(u) ==
    /\ ret.op = "register_agent"
    /\ ret.error = NoError
    /\ heap' = [heap EXCEPT ![ret.value] = DictUpdate(@, u)]
    /\ ret' = [op |-> "caller_write", arg |-> "metadata", error |-> NoError,
               value |-> ret.value]
    /\ UNCHANGED <<catalogVars, singletonVars, threadVars, ctxVars, toolVars>>

\* The caller writes into the record get_agent returned.
caller_mutates_record(u) ==
    /\ ret.op = "get_agent"
    /\ ret.value # NoValue
    /\ heap' = [heap EXCEPT ![ret.value] = DictUpdate(@, u)]
    /\ ret' = [op |-> "caller_write", arg |-> "record", error |-> NoError,
               value |-> ret.value]
    /\ UNCHANGED <<catalogVars, singletonVars, threadVars, ctxVars, toolVars>>

\* The caller deletes an entry of the map get_all_agents returned.
caller_mutates_map(agent_name) ==
    /\ ret.op = "get_all_agents"
    /\ agent_name \in Names(ret.value)
    /\ ret' = [ret EXCEPT !.value = DelItem(@, agent_name)]
    /\ UNCHANGED <<catalogVars, heap, singletonVars, threadVars, ctxVars, toolVars>>

\* The caller writes into a record of the map get_all_agents returned.
caller_mutates_listed_record(agent_name, u) ==
    /\ ret.op = "get_all_agents"
    /\ agent_name \in Names(ret.value)
    /\ heap' = [heap EXCEPT ![MetaOf(ret.value, agent_name)] = DictUpdate(@, u)]
    /\ ret' = [op |-> "caller_write", arg |-> "listed record", error |-> NoError,
               value |-> MetaOf(ret.value, agent_name)]
    /\ UNCHANGED <<catalogVars, singletonVars, threadVars, ctxVars, toolVars>>

NextAlias ==
    \/ \E n \in AgentIds, m \in ConcMetaInputs : register_agent_by_reference(n, m)
    \/ \E n \in AgentIds, m \in ConcUpdateInputs : update_agent_in_place(n, m)
    \/ \E n \in AgentIds : unregister_agent_entry(n)
    \/ \E n \in AgentIds : get_agent(n)
    \/ get_all_agents_copy
    \/ \E u \in CallerWrites : caller_mutates_metadata(u)
    \/ \E u \in CallerWrites : caller_mutates_record(u)
    \/ \E n \in AgentIds : caller_mutates_map(n)
    \/ \E n \in AgentIds, u \in CallerWrites : caller_mutates_listed_record(n, u)

SpecAlias == InitAlias /\ [][NextAlias]_vars

(* C11: agent records change only through catalog operations: a step that  *)
(* changes what the catalog returns (the records behind its entries) or    *)
(* what it has persisted is a register_agent, update_agent or              *)
(* unregister_agent call; a caller writing into the map or a record that   *)
(* get_all_agents or get_agent returned, or into the metadata it passed to *)
(* register_agent, changes neither.                                        *)
C11_CatalogOwnsRecords ==
    [][(Contents(agents', heap') # Contents(agents, heap) \/ file' # file)
          => ret'.op \in Mutators]_vars

---------------------------------------------------------------------------
(* ContextManager (src/src/context/context_manager.py): the session store. *)
(*                                                                         *)
(* A session is a dict from keys to JSON-like values, the reserved key     *)
(* "_timestamp" included; values carry their Python type.  The store is an *)
(* insertion-ordered dict of sessions, a sequence of name/meta entries     *)
(* like the catalog.  Time is counted in ticks of the model clock.         *)

MaxTime == 2
MaxListeners == 2

\* SESSION_EXPIRATION_SECONDS, in ticks.
SessionExpiration == 1

\* EVENT_EMISSION and GARBAGE_COLLECTION are switched on, USE_REDIS_CACHING off.
EventEmission == TRUE

Sessions == {"s1", "s2"}

JInt(n) == [type |-> "int", int |-> n]
JStr(s) == [type |-> "str", str |-> s]
JFloat(x) == [type |-> "float", float |-> x]
JDict(items) == [type |-> "dict", items |-> items]

\* isinstance(value, dict)
IsDict(value) == value.type = "dict"

\* Values passed to set_context.
ContextKeys == {"a"}
ContextValues == {JStr("v")}

\* Partial contexts passed to update_partial_context, up to three levels deep.
PartialInputs ==
    { "a" :> JDict("x" :> JInt(1)),
      "a" :> JDict("y" :> JInt(2)),
      "a" :> JDict("x" :> JDict("p" :> JInt(1))),
      "a" :> JDict("x" :> JDict("q" :> JInt(2))) }

\* The shallow dict.update in place of the recursion.
recursive_update_shallow(original, updates) == DictUpdate(original, updates)

\* recursive_update: every key of updates is assigned once, so the result
\* does not depend on the order of the loop.
RECURSIVE recursive_update(_, _)
recursive_update(original, updates) ==
    [key \in DOMAIN original \cup DOMAIN updates |->
        IF key \in DOMAIN updates
        THEN IF /\ IsDict(updates[key])
                /\ key \in DOMAIN original
                /\ IsDict(original[key])
             THEN JDict(recursive_update(original[key].items, updates[key].items))
             ELSE updates[key]
        ELSE original[key]]

NewSession(t) == "_timestamp" :> JFloat(t)

\* if session_id not in self._context_store: create it.
ensure_session(st, session_id, t) ==
    IF session_id \in Names(st) THEN st ELSE SetItem(st, session_id, NewSession(t))

\* create_session that overwrites an existing session.
create_session_result_overwrite(st, session_id, t) ==
    SetItem(st, session_id, NewSession(t))

create_session_result(st, session_id, t) == ensure_session(st, session_id, t)

set_context_result(st, session_id, key, value, t) ==
    LET base == ensure_session(st, session_id, t)
        written == DictUpdate(MetaOf(base, session_id), key :> value)
    IN  SetItem(base, session_id, DictUpdate(written, "_timestamp" :> JFloat(t)))

update_partial_context_result(st, session_id, partial_context, t) ==
    LET base == ensure_session(st, session_id, t)
        merged == recursive_update(MetaOf(base, session_id), partial_context)
    IN  SetItem(base, session_id, DictUpdate(merged, "_timestamp" :> JFloat(t)))

\* self._context_store.get(session_id, {}).copy()
get_context_result(st, session_id) ==
    IF session_id \in Names(st) THEN MetaOf(st, session_id) ELSE EmptyDict

delete_context_result(st, session_id) == DelItem(st, session_id)

\* A sweep that also deletes a session exactly as old as the TTL.
is_expired_at_ttl(context, t) ==
    t - DictGet(context, "_timestamp", JFloat(t)).float >= SessionExpiration

\* gc_worker: now - context.get("_timestamp", now) > self.session_expiration
is_expired(context, t) ==
    t - DictGet(context, "_timestamp", JFloat(t)).float > SessionExpiration

\* A sweep that finds nothing to delete.
expired_sessions_none(st, t) == <<>>

expired_sessions(st, t) == SeqNames(SelectSeq(st, LAMBDA e : is_expired(e.meta, t)))

RECURSIVE delete_all(_, _)
delete_all(st, ids) ==
    IF ids = <<>> THEN st ELSE delete_all(DelItem(st, Head(ids)), Tail(ids))

(* Listeners are recorders: delivered[l].last holds the events listener l  *)
(* was called with during the last store call, delivered[l].gc counts the  *)
(* garbage_collected events it was called with per session.  A listener    *)
(* with raises = TRUE raises an Exception whenever it is called.           *)

Listener(raises) ==
    [raises |-> raises, last |-> <<>>, gc |-> [s \in Sessions |-> 0]]

ListenerError == "Exception raised by a listener"

Raising(log) == {l \in DOMAIN log : log[l].raises}

Called(entry, session_id, event_type) ==
    [entry EXCEPT
       !.last = Append(@, [session |-> session_id, type |-> event_type]),
       !.gc = IF event_type = "garbage_collected"
              THEN [@ EXCEPT ![session_id] = @ + 1]
              ELSE @]

\* _emit_event without the try block: the first raising listener ends the
\* loop and the exception leaves the store call.
emit_event_unguarded(log, session_id, event_type) ==
    LET stop == IF Raising(log) = {} THEN Len(log)
                ELSE CHOOSE i \in Raising(log) : \A j \in Raising(log) : i <= j
    IN  [error |-> IF Raising(log) = {} THEN NoError ELSE ListenerError,
         delivered |-> [l \in DOMAIN log |->
                          IF l <= stop THEN Called(log[l], session_id, event_type)
                          ELSE log[l]]]

\* _emit_event: every listener is called in registration order; what a
\* listener raises is printed and dropped.
emit_event(log, session_id, event_type) ==
    IF EventEmission
    THEN [error |-> NoError,
          delivered |-> [l \in DOMAIN log |-> Called(log[l], session_id, event_type)]]
    ELSE [error |-> NoError, delivered |-> log]

\* gc_worker's loop over the expired sessions, as far as the events go.
RECURSIVE emit_events(_, _, _)
emit_events(log, ids, event_type) ==
    IF ids = <<>> THEN [error |-> NoError, delivered |-> log]
    ELSE LET first == emit_event(log, Head(ids), event_type)
             rest == emit_events(first.delivered, Tail(ids), event_type)
         IN  [error |-> IF first.error # NoError THEN first.error ELSE rest.error,
              delivered |-> rest.delivered]

\* A new store call begins: the recorders start a new page.
NewCall(log) == [l \in DOMAIN log |-> [log[l] EXCEPT !.last = <<>>]]

---------------------------------------------------------------------------
(* Session store, sequential specification: the in-memory backend with     *)
(* garbage collection and event emission, one call at a time; a sweep of   *)
(* gc_worker runs between two foreground calls.                            *)

nonCtxVars == <<catalogVars, singletonVars, threadVars, aliasVars, toolVars>>

InitCtx ==
    /\ agents = EmptyCatalog
    /\ file = MissingFile
    /\ clock = 0
    /\ failures = 0
    /\ ret = [op |-> "init", arg |-> "", error |-> NoError]
    /\ instance = 1
    /\ objects = 1
    /\ pc = Idle
    /\ call = NoCall
    /\ outcome = NoOutcome
    /\ start = NoStart
    /\ heap = <<>>
    /\ store = EmptyCatalog
    /\ redis = EmptyDict
    /\ time = 0
    /\ delivered = <<>>
    /\ lock = "free"
    /\ tools = <<>>
    /\ executed = <<>>
    /\ chains = <<>>
    /\ version_history = <<>>
    /\ tool_stats = <<>>
    /\ patterns = <<>>

\* Time passes.
tick ==
    /\ time < MaxTime
    /\ time' = time + 1
    /\ ret' = [op |-> "tick", arg |-> "", error |-> NoError]
    /\ UNCHANGED <<store, redis, delivered, lock, nonCtxVars>>

create_session(session_id) ==
    LET emitted == emit_event(NewCall(delivered), session_id, "create_session") IN
    /\ store' = create_session_result(store, session_id, time)
    /\ delivered' = emitted.delivered
    /\ ret' = [op |-> "create_session", arg |-> session_id, error |-> emitted.error]
    /\ UNCHANGED <<redis, time, lock, nonCtxVars>>

set_context(session_id, key, value) ==
    LET emitted == emit_event(NewCall(delivered), session_id, "set_context") IN
    /\ store' = set_context_result(store, session_id, key, value, time)
    /\ delivered' = emitted.delivered
    /\ ret' = [op |-> "set_context", arg |-> session_id, error |-> emitted.error, key |-> key, value |-> value]
    /\ UNCHANGED <<redis, time, lock, nonCtxVars>>

update_partial_context(session_id, partial_context) ==
    LET emitted == emit_event(NewCall(delivered), session_id, "update_partial") IN
    /\ store' = update_partial_context_result(store, session_id, partial_context, time)
    /\ delivered' = emitted.delivered
    /\ ret' = [op |-> "update_partial_context", arg |-> session_id,
               error |-> emitted.error,
               partial |-> partial_context]
    /\ UNCHANGED <<redis, time, lock, nonCtxVars>>

get_context(session_id) ==
    /\ ret' = [op |-> "get_context", arg |-> session_id, error |-> NoError,
               value |-> get_context_result(store, session_id)]
    /\ delivered' = NewCall(delivered)
    /\ UNCHANGED <<store, redis, time, lock, nonCtxVars>>

delete_context(session_id) ==
    LET emitted == emit_event(NewCall(delivered), session_id, "delete_context") IN
    /\ store' = delete_context_result(store, session_id)
    /\ delivered' = emitted.delivered
    /\ ret' = [op |-> "delete_context", arg |-> session_id, error |-> emitted.error]
    /\ UNCHANGED <<redis, time, lock, nonCtxVars>>

\* One round of gc_worker's loop after its sleep.
gc_worker ==
    LET expired == expired_sessions(store, time)
        emitted == emit_events(NewCall(delivered), expired, "garbage_collected")
    IN  /\ store' = delete_all(store, expired)
        /\ delivered' = emitted.delivered
        /\ ret' = [op |-> "gc_worker", arg |-> "", error |-> emitted.error]
        /\ UNCHANGED <<redis, time, lock, nonCtxVars>>

\* The foreground calls with nested data, no listener registered.
NextCtx ==
    \/ tick
    \/ \E s \in Sessions : create_session(s)
    \/ \E s \in Sessions, k \in ContextKeys, v \in ContextValues :
          set_context(s, k, v)
    \/ \E s \in Sessions, p \in PartialInputs : update_partial_context(s, p)
    \/ \E s \in Sessions : get_context(s)
    \/ \E s \in Sessions : delete_context(s)

SpecCtx == InitCtx /\ [][NextCtx]_vars

\* Partial contexts of the calls that run next to listeners and sweeps.
GcPartialInputs == {"a" :> JStr("v")}

\* The foreground calls with listeners, some of them raising, and the sweep.
NextGc ==
    \/ tick
    \/ \E s \in Sessions : create_session(s)
    \/ \E s \in Sessions, k \in ContextKeys, v \in ContextValues :
          set_context(s, k, v)
    \/ \E s \in Sessions, p \in GcPartialInputs :
          update_partial_context(s, p)
    \/ \E s \in Sessions : get_context(s)
    \/ \E s \in Sessions : delete_context(s)
    \/ gc_worker

\* add_event_listener: self._event_listeners.append(callback)
add_event_listener(log, raises) == Append(log, Listener(raises))

\* The listeners a process registers when it starts: n of them, each one
\* well-behaved or raising.
RECURSIVE ListenerSetups(_)
ListenerSetups(n) ==
    IF n = 0 THEN {<<>>}
    ELSE {add_event_listener(log, raises) :
             log \in ListenerSetups(n - 1), raises \in BOOLEAN}

\* The store is constructed and the listeners of the process are registered.
InitGc ==
    /\ agents = EmptyCatalog
    /\ file = MissingFile
    /\ clock = 0
    /\ failures = 0
    /\ ret = [op |-> "init", arg |-> "", error |-> NoError]
    /\ instance = 1
    /\ objects = 1
    /\ pc = Idle
    /\ call = NoCall
    /\ outcome = NoOutcome
    /\ start = NoStart
    /\ heap = <<>>
    /\ store = EmptyCatalog
    /\ redis = EmptyDict
    /\ time = 0
    /\ delivered \in ListenerSetups(MaxListeners)
    /\ lock = "free"
    /\ tools = <<>>
    /\ executed = <<>>
    /\ chains = <<>>
    /\ version_history = <<>>
    /\ tool_stats = <<>>
    /\ patterns = <<>>

SpecGc == InitGc /\ [][NextGc]_vars

\* The sweep runs again and again for as long as the process lives.
SpecGcLive == SpecGc /\ WF_vars(gc_worker)

---------------------------------------------------------------------------
(* Vocabulary of the session-store claims.                                 *)

SessionOps ==
    {"create_session", "set_context", "update_partial_context", "delete_context"}

\* The user data of a session: everything but the reserved timestamp.
Data(context) == [k \in DOMAIN context \ {"_timestamp"} |-> context[k]]

Timestamp(context) == context["_timestamp"].float

Exists(st, s) == \E i \in DOMAIN st : st[i].name = s

SessionOf(st, s) == st[CHOOSE i \in DOMAIN st : st[i].name = s].meta

\* No write for longer than the TTL.
Expired(st, s, t) == Exists(st, s) /\ t - Timestamp(SessionOf(st, s)) > SessionExpiration

IsMap(v) == v.type = "dict"

\* new is old deep-merged with upd: a key of upd holds the merge when both
\* sides are maps and the update's value otherwise; every other key of old
\* is kept; there are no further keys.
RECURSIVE DeepMerged(_, _, _)
DeepMerged(old, upd, new) ==
    /\ DOMAIN new = DOMAIN old \cup DOMAIN upd
    /\ \A k \in DOMAIN old \ DOMAIN upd : new[k] = old[k]
    /\ \A k \in DOMAIN upd :
          IF k \in DOMAIN old /\ IsMap(old[k]) /\ IsMap(upd[k])
          THEN IsMap(new[k]) /\ DeepMerged(old[k].items, upd[k].items, new[k].items)
          ELSE new[k] = upd[k]

(* C12: create_session on a session that exists raises no error and       *)
(* leaves the session's data and timestamp exactly as they were: the       *)
(* timestamp is not bumped, a repeated create changes nothing.             *)
C12_CreateIdempotent ==
    [][\A s \in Sessions :
          (ret'.op = "create_session" /\ ret'.arg = s /\ Exists(store, s))
          => /\ ret'.error = NoError
             /\ Exists(store', s)
             /\ SessionOf(store', s) = SessionOf(store, s)
             /\ store' = store]_vars

\* A create on a session that holds data written before the clock moved on.
C12_Witness ==
    /\ ret.op = "create_session"
    /\ Exists(store, ret.arg)
    /\ Timestamp(SessionOf(store, ret.arg)) < time
    /\ Data(SessionOf(store, ret.arg)) # EmptyDict

GcEvents(log, l, s) == log[l].gc[s]

\* The events of the last store call that listener l was called with for session s.
LastEvents(log, l, s) == SelectSeq(log[l].last, LAMBDA e : e.session = s)

EventType ==
    [create_session |-> "create_session", set_context |-> "set_context",
     update_partial_context |-> "update_partial", delete_context |-> "delete_context"]

\* What the call recorded in r has to leave in the store st2, coming from st.
TakesEffect(r, st, st2, t) ==
    CASE r.op = "create_session" -> Exists(st2, r.arg)
      [] r.op = "set_context" ->
           /\ Exists(st2, r.arg)
           /\ r.key \in DOMAIN SessionOf(st2, r.arg)
           /\ SessionOf(st2, r.arg)[r.key] = r.value
           /\ Timestamp(SessionOf(st2, r.arg)) = t
      [] r.op = "update_partial_context" ->
           /\ Exists(st2, r.arg)
           /\ DeepMerged(IF Exists(st, r.arg) THEN Data(SessionOf(st, r.arg))
                         ELSE EmptyDict,
                         r.partial, Data(SessionOf(st2, r.arg)))
           /\ Timestamp(SessionOf(st2, r.arg)) = t
      [] r.op = "delete_context" -> ~Exists(st2, r.arg)
      [] r.op = "gc_worker" ->
           \A s \in Sessions : Expired(st, s, t) => ~Exists(st2, s)

(* C16: listener failures are isolated: whichever registered listeners     *)
(* raise, a create, set, update or delete call and a sweep take their full *)
(* effect and return normally, and every registered listener, raising or   *)
(* not, is called with the event (for a sweep: once per removed session).  *)
C16_ListenerIsolation ==
    [][ret'.op \in SessionOps \cup {"gc_worker"}
         => /\ ret'.error = NoError
            /\ TakesEffect(ret', store, store', time)
            /\ \A l \in DOMAIN delivered', s \in Sessions :
                  LastEvents(delivered', l, s) =
                     IF ret'.op = "gc_worker"
                     THEN IF Expired(store, s, time)
                          THEN <<[session |-> s, type |-> "garbage_collected"]>>
                          ELSE <<>>
                     ELSE IF ret'.arg = s
                          THEN <<[session |-> s, type |-> EventType[ret'.op]]>>
                          ELSE <<>>]_vars

\* A call whose first listener raised: the second one was called all the same.
C16_Witness ==
    /\ ret.op \in SessionOps
    /\ ret.error = NoError
    /\ Len(delivered) = 2
    /\ delivered[1].raises
    /\ ~delivered[2].raises
    /\ LastEvents(delivered, 2, ret.arg) # <<>>

---------------------------------------------------------------------------
(* Session store, concurrent specification: a foreground thread runs       *)
(* create_session, set_context, update_partial_context and delete_context  *)
(* statement by statement while gc_worker runs its loop; both enter their  *)
(* with self._lock blocks only when the lock is free.  No listener is      *)
(* registered.                                                             *)

Foreground == "t1"
Collector == "gc"
CtxThreads == {Foreground, Collector}

\* A with block that does not wait for the lock.
AcquirableAlways(l) == TRUE

\* with self._lock: the thread blocks until the lock is free.
Acquirable(l) == l = "free"

CtxCalls ==
    {[op |-> "create_session", session |-> s] : s \in Sessions}
      \cup {[op |-> "set_context", session |-> s, key |-> k, value |-> v] :
               s \in Sessions, k \in ContextKeys, v \in ContextValues}
      \cup {[op |-> "update_partial_context", session |-> s, partial |-> p] :
               s \in Sessions, p \in GcPartialInputs}
      \cup {[op |-> "delete_context", session |-> s] : s \in Sessions}

InitCtxConc ==
    /\ agents = EmptyCatalog
    /\ file = MissingFile
    /\ clock = 0
    /\ failures = 0
    /\ ret = [op |-> "init", arg |-> "", error |-> NoError]
    /\ instance = 1
    /\ objects = 1
    /\ pc = [t \in CtxThreads |-> "idle"]
    /\ call = [t \in CtxThreads |-> [op |-> "none"]]
    /\ outcome = [t \in CtxThreads |-> NoError]
    /\ start = NoStart
    /\ heap = <<>>
    /\ store = EmptyCatalog
    /\ redis = EmptyDict
    /\ time = 0
    /\ delivered = <<>>
    /\ lock = "free"
    /\ tools = <<>>
    /\ executed = <<>>
    /\ chains = <<>>
    /\ version_history = <<>>
    /\ tool_stats = <<>>
    /\ patterns = <<>>

ctxConcFrame == <<catalogVars, ret, singletonVars, start, aliasVars, redis, delivered, toolVars>>

\* An exception inside a with block: the lock is released on the way out.
RaiseInside(t, error, label) ==
    /\ outcome' = [outcome EXCEPT ![t] = error]
    /\ lock' = "free"
    /\ Goto(t, label)

\* Time passes while the threads run.
ctx_tick ==
    /\ time < MaxTime
    /\ time' = time + 1
    /\ UNCHANGED <<store, lock, pc, call, outcome, ctxConcFrame>>

\* The foreground thread enters one of the four calls.
fg_call(c) ==
    /\ pc[Foreground] = "idle"
    /\ call' = [call EXCEPT ![Foreground] = c]
    /\ Goto(Foreground, "lock")
    /\ UNCHANGED <<store, time, lock, outcome, ctxConcFrame>>

\* with self._lock: lines 96, 113, 135, 163.
fg_lock ==
    /\ pc[Foreground] = "lock"
    /\ Acquirable(lock)
    /\ lock' = Foreground
    /\ Goto(Foreground,
            CASE call[Foreground].op = "create_session" -> "create"
              [] call[Foreground].op = "delete_context" -> "delete"
              [] OTHER -> "ensure")
    /\ UNCHANGED <<store, time, call, outcome, ctxConcFrame>>

\* create_session, lines 97-98.
fg_create ==
    /\ pc[Foreground] = "create"
    /\ store' = create_session_result(store, call[Foreground].session, time)
    /\ Goto(Foreground, "unlock")
    /\ UNCHANGED <<time, lock, call, outcome, ctxConcFrame>>

\* set_context, lines 114-115, and update_partial_context, lines 136-137.
fg_ensure ==
    /\ pc[Foreground] = "ensure"
    /\ store' = ensure_session(store, call[Foreground].session, time)
    /\ Goto(Foreground,
            IF call[Foreground].op = "set_context" THEN "write" ELSE "merge")
    /\ UNCHANGED <<time, lock, call, outcome, ctxConcFrame>>

\* set_context, line 116: self._context_store[session_id][key] = value.
fg_write ==
    LET c == call[Foreground] IN
    /\ pc[Foreground] = "write"
    /\ IF c.session \notin Names(store)
       THEN RaiseInside(Foreground, KeyError, "idle") /\ UNCHANGED store
       ELSE /\ store' = SetItem(store, c.session,
                                DictUpdate(MetaOf(store, c.session), c.key :> c.value))
            /\ Goto(Foreground, "stamp")
            /\ UNCHANGED <<lock, outcome>>
    /\ UNCHANGED <<time, call, ctxConcFrame>>

\* update_partial_context, line 138.
fg_merge ==
    LET c == call[Foreground] IN
    /\ pc[Foreground] = "merge"
    /\ IF c.session \notin Names(store)
       THEN RaiseInside(Foreground, KeyError, "idle") /\ UNCHANGED store
       ELSE /\ store' = SetItem(store, c.session,
                                recursive_update(MetaOf(store, c.session), c.partial))
            /\ Goto(Foreground, "stamp")
            /\ UNCHANGED <<lock, outcome>>
    /\ UNCHANGED <<time, call, ctxConcFrame>>

\* Lines 118 and 139: self._context_store[session_id]["_timestamp"] = time.time().
fg_stamp ==
    LET c == call[Foreground] IN
    /\ pc[Foreground] = "stamp"
    /\ IF c.session \notin Names(store)
       THEN RaiseInside(Foreground, KeyError, "idle") /\ UNCHANGED store
       ELSE /\ store' = SetItem(store, c.session,
                                DictUpdate(MetaOf(store, c.session),
                                           "_timestamp" :> JFloat(time)))
            /\ Goto(Foreground, "unlock")
            /\ UNCHANGED <<lock, outcome>>
    /\ UNCHANGED <<time, call, ctxConcFrame>>

\* delete_context, lines 164-165.
fg_delete ==
    /\ pc[Foreground] = "delete"
    /\ store' = delete_context_result(store, call[Foreground].session)
    /\ Goto(Foreground, "unlock")
    /\ UNCHANGED <<time, lock, call, outcome, ctxConcFrame>>

\* The end of the with block; the call returns.
fg_unlock ==
    /\ pc[Foreground] = "unlock"
    /\ lock' = "free"
    /\ Goto(Foreground, "idle")
    /\ UNCHANGED <<store, time, call, outcome, ctxConcFrame>>

\* gc_worker, lines 178-179: the sleep ends, now = time.time().
gc_now ==
    /\ pc[Collector] = "idle"
    /\ call' = [call EXCEPT ![Collector] =
                   [op |-> "gc_worker", now |-> time, expired |-> <<>>]]
    /\ Goto(Collector, "lock")
    /\ UNCHANGED <<store, time, lock, outcome, ctxConcFrame>>

\* gc_worker, line 180: with self._lock.
gc_lock ==
    /\ pc[Collector] = "lock"
    /\ Acquirable(lock)
    /\ lock' = Collector
    /\ Goto(Collector, "scan")
    /\ UNCHANGED <<store, time, call, outcome, ctxConcFrame>>

\* gc_worker, lines 181-184: the list of expired sessions.
gc_scan ==
    /\ pc[Collector] = "scan"
    /\ call' = [call EXCEPT ![Collector].expired =
                   expired_sessions(store, call[Collector].now)]
    /\ Goto(Collector, "delete")
    /\ UNCHANGED <<store, time, lock, outcome, ctxConcFrame>>

\* gc_worker, lines 185-186: one round of the deletion loop, or its end.
\* A KeyError ends the thread.
gc_delete ==
    LET expired == call[Collector].expired IN
    /\ pc[Collector] = "delete"
    /\ IF expired = <<>>
       THEN Goto(Collector, "unlock") /\ UNCHANGED <<store, call, lock, outcome>>
       ELSE IF Head(expired) \notin Names(store)
       THEN RaiseInside(Collector, KeyError, "dead") /\ UNCHANGED <<store, call>>
       ELSE /\ store' = DelItem(store, Head(expired))
            /\ call' = [call EXCEPT ![Collector].expired = Tail(expired)]
            /\ UNCHANGED <<pc, lock, outcome>>
    /\ UNCHANGED <<time, ctxConcFrame>>

\* gc_worker: the end of the with block; the loop sleeps again.
gc_unlock ==
    /\ pc[Collector] = "unlock"
    /\ lock' = "free"
    /\ Goto(Collector, "idle")
    /\ UNCHANGED <<store, time, call, outcome, ctxConcFrame>>

NextCtxConc ==
    \/ ctx_tick
    \/ \E c \in CtxCalls : fg_call(c)
    \/ fg_lock
    \/ fg_create
    \/ fg_ensure
    \/ fg_write
    \/ fg_merge
    \/ fg_stamp
    \/ fg_delete
    \/ fg_unlock
    \/ gc_now
    \/ gc_lock
    \/ gc_scan
    \/ gc_delete
    \/ gc_unlock

SpecCtxConc == InitCtxConc /\ [][NextCtxConc]_vars

\* Positions inside the with self._lock blocks.
InsideForeground == {"create", "ensure", "write", "merge", "stamp", "delete", "unlock"}
InsideCollector == {"scan", "delete", "unlock"}

(* C15: the sweep is mutually exclusive with the foreground calls: the     *)
(* sweep is never inside its locked block while create_session,            *)
(* set_context, update_partial_context or delete_context is inside its     *)
(* own; when the sweep deletes a session no foreground call is between its *)
(* steps and the session's timestamp, as it is at that moment, is older    *)
(* than the TTL for the sweep's clock reading; no thread trips over a      *)
(* session that vanished under it.                                         *)
C15_SweepExcludesForeground ==
    [][/\ ~(pc'[Collector] \in InsideCollector /\ pc'[Foreground] \in InsideForeground)
       /\ \A s \in Sessions :
             (pc[Collector] = "delete" /\ Exists(store, s) /\ ~Exists(store', s))
             => /\ pc[Foreground] \notin InsideForeground
                /\ Expired(store, s, call[Collector].now)
       /\ \A t \in CtxThreads : outcome'[t] = NoError]_vars

\* The sweep, holding the lock, is about to delete the expired session for
\* which a set_context is waiting at the lock.
C15_Witness ==
    /\ pc[Collector] = "delete"
    /\ lock = Collector
    /\ call[Collector].expired # <<>>
    /\ pc[Foreground] = "lock"
    /\ call[Foreground].op = "set_context"
    /\ Head(call[Collector].expired) = call[Foreground].session
    /\ Expired(store, call[Foreground].session, call[Collector].now)

---------------------------------------------------------------------------
(* The Redis backend (USE_REDIS_CACHING): a session is a Redis hash.       *)
(* redis-py encodes str, int and float field values with str() and raises  *)
(* DataError for any other type, dict included (the mapping= keyword of    *)
(* create_session exists from redis-py 3.5 on, where this holds); hgetall  *)
(* returns bytes, which get_context decodes to str.  A hash exists while   *)
(* it has a field.                                                         *)

DataError == "redis.exceptions.DataError"

Digits == <<"0", "1", "2", "3", "4", "5", "6", "7", "8", "9">>

\* str(n) for a small int, str(x) for a float with an integral value.
IntToStr(n) == Digits[n + 1]
FloatToStr(x) == IntToStr(x) \o ".0"

\* The encoder of redis-py: can the value be sent?
Encodable(value) == value.type \in {"str", "int", "float"}

\* What the server stores and hgetall/decode hand back: the str() of the value.
Encoded(value) ==
    CASE value.type = "str" -> value
      [] value.type = "int" -> JStr(IntToStr(value.int))
      [] value.type = "float" -> JStr(FloatToStr(value.float))

\* redis_client.exists(session_id)
redis_exists(rd, session_id) == session_id \in Names(rd)

\* redis_client.hset(session_id, key, value)
hset(rd, session_id, key, value) ==
    IF ~Encodable(value)
    THEN [error |-> DataError, redis |-> rd]
    ELSE [error |-> NoError,
          redis |-> SetItem(rd, session_id,
                            DictUpdate(IF redis_exists(rd, session_id)
                                       THEN MetaOf(rd, session_id) ELSE EmptyDict,
                                       key :> Encoded(value)))]

\* hset for every item of a dict; the call that raises ends the loop.  The
\* fields are independent, so the order matters only for what was written
\* before an error: the encodable items are written first here.
hset_all(rd, session_id, items) ==
    LET good == {k \in DOMAIN items : Encodable(items[k])}
        written == DictUpdate(IF redis_exists(rd, session_id)
                              THEN MetaOf(rd, session_id) ELSE EmptyDict,
                              [k \in good |-> Encoded(items[k])])
    IN  [error |-> IF good = DOMAIN items THEN NoError ELSE DataError,
         redis |-> IF good = {} THEN rd ELSE SetItem(rd, session_id, written)]

redis_create_session(rd, session_id, t) ==
    IF redis_exists(rd, session_id)
    THEN [error |-> NoError, redis |-> rd]
    ELSE hset(rd, session_id, "_timestamp", JFloat(t))

redis_set_context(rd, session_id, key, value, t) ==
    LET first == hset(rd, session_id, key, value) IN
    IF first.error # NoError THEN first
    ELSE hset(first.redis, session_id, "_timestamp", JFloat(t))

\* hgetall and decode: every value comes back as a str.
redis_get_context(rd, session_id) ==
    IF redis_exists(rd, session_id) THEN MetaOf(rd, session_id) ELSE EmptyDict

redis_update_partial_context(rd, session_id, partial_context, t) ==
    LET current == redis_get_context(rd, session_id)
        updated == recursive_update(current, partial_context)
        first == hset_all(rd, session_id, updated)
    IN  IF first.error # NoError THEN first
        ELSE hset(first.redis, session_id, "_timestamp", JFloat(t))

redis_delete_context(rd, session_id) == DelItem(rd, session_id)

---------------------------------------------------------------------------
(* Backend specification: two ContextManagers, one per backend, receive    *)
(* the same calls at the same times.  ret holds what the in-memory store   *)
(* returned or raised, ret.redis what the Redis store did.                 *)

BackendSessions == {"s1"}

BackendValues == ContextValues \cup {JInt(1)}

BackendPartialInputs ==
    { "a" :> JStr("w"),
      "a" :> JDict("x" :> JInt(1)),
      "a" :> JDict("y" :> JInt(2)) }

backendFrame == <<time, delivered, lock, nonCtxVars>>

InitBackends ==
    /\ InitCtx

create_session_on_both(session_id) ==
    LET r == redis_create_session(redis, session_id, time) IN
    /\ store' = create_session_result(store, session_id, time)
    /\ redis' = r.redis
    /\ ret' = [op |-> "create_session", arg |-> session_id, error |-> NoError,
               redis |-> [error |-> r.error]]
    /\ UNCHANGED backendFrame

set_context_on_both(session_id, key, value) ==
    LET r == redis_set_context(redis, session_id, key, value, time) IN
    /\ store' = set_context_result(store, session_id, key, value, time)
    /\ redis' = r.redis
    /\ ret' = [op |-> "set_context", arg |-> session_id, error |-> NoError,
               redis |-> [error |-> r.error]]
    /\ UNCHANGED backendFrame

update_partial_context_on_both(session_id, partial_context) ==
    LET r == redis_update_partial_context(redis, session_id, partial_context, time) IN
    /\ store' = update_partial_context_result(store, session_id, partial_context, time)
    /\ redis' = r.redis
    /\ ret' = [op |-> "update_partial_context", arg |-> session_id, error |-> NoError,
               redis |-> [error |-> r.error]]
    /\ UNCHANGED backendFrame

get_context_on_both(session_id) ==
    /\ ret' = [op |-> "get_context", arg |-> session_id, error |-> NoError,
               value |-> get_context_result(store, session_id),
               redis |-> [error |-> NoError,
                          value |-> redis_get_context(redis, session_id)]]
    /\ UNCHANGED <<store, redis, backendFrame>>

delete_context_on_both(session_id) ==
    /\ store' = delete_context_result(store, session_id)
    /\ redis' = redis_delete_context(redis, session_id)
    /\ ret' = [op |-> "delete_context", arg |-> session_id, error |-> NoError,
               redis |-> [error |-> NoError]]
    /\ UNCHANGED backendFrame

NextBackends ==
    \/ tick
    \/ \E s \in BackendSessions : create_session_on_both(s)
    \/ \E s \in BackendSessions, k \in ContextKeys, v \in BackendValues :
          set_context_on_both(s, k, v)
    \/ \E s \in BackendSessions, p \in BackendPartialInputs :
          update_partial_context_on_both(s, p)
    \/ \E s \in BackendSessions : get_context_on_both(s)
    \/ \E s \in BackendSessions : delete_context_on_both(s)

SpecBackends == InitBackends /\ [][NextBackends]_vars

\* The decimal notation of a timestamp.
Decimal(x) == Digits[x + 1] \o ".0"

(* C17: the store behaves the same on both backends: after the same calls  *)
(* a call raises on the Redis backend exactly when it raises on the        *)
(* in-memory backend, and get_context returns the same keys with the same  *)
(* nested data and the same timestamp (Redis hands it back in decimal      *)
(* notation).                                                              *)
C17_BackendsAgree ==
    /\ ret.op \in SessionOps \cup {"get_context"} => ret.redis.error = ret.error
    /\ ret.op = "get_context"
          => /\ DOMAIN ret.redis.value = DOMAIN ret.value
             /\ Data(ret.redis.value) = Data(ret.value)
             /\ "_timestamp" \in DOMAIN ret.value
                   => ret.redis.value["_timestamp"].str = Decimal(Timestamp(ret.value))

---------------------------------------------------------------------------
(* Tools (src/tools/base.py).  ToolRegistry._tools is an ordered dict from *)
(* the tool's name to the Tool instance; an instance carries its version   *)
(* and its ToolMetrics.  Floats are exact fractions [num, den] in lowest   *)
(* terms, so that equal ratios are equal values.                           *)

MaxExecutions == 3

ToolNames == {"search", "summarize"}
NamelessTool == ""
DefaultVersion == "1.0.0"
ToolVersions == {DefaultVersion}
ToolClasses == [name : ToolNames \cup {NamelessTool}, version : ToolVersions]

NoTool == "None"
NoData == "{}"
MustHaveName == "ValueError: Tool must have a name"

RECURSIVE GCD(_, _)
GCD(a, b) == IF b = 0 THEN a ELSE GCD(b, a % b)

\* a / b for a >= 0, b > 0
Fraction(a, b) ==
    IF a = 0 THEN [num |-> 0, den |-> 1]
    ELSE [num |-> a \div GCD(a, b), den |-> b \div GCD(a, b)]

FMul(x, y) == Fraction(x.num * y.num, x.den * y.den)
FAdd(x, y) == Fraction(x.num * y.den + y.num * x.den, x.den * y.den)
FGreater(x, y) == x.num * y.den > y.num * x.den
FAtLeast(x, y) == x.num * y.den >= y.num * x.den

Max(a, b) == IF a >= b THEN a ELSE b

\* ToolMetrics(): the dataclass defaults.
ToolMetrics ==
    [total_executions |-> 0, failed_executions |-> 0, success_rate |-> Fraction(0, 1)]

\* tool_class(): Tool.__init__
NewTool(tool_class) == [version |-> tool_class.version, metrics |-> ToolMetrics]

ToolResult(success, data, error_message) ==
    [success |-> success, data |-> data, error_message |-> error_message]

\* What _execute_impl does in one call: it returns a dict or raises.
ImplOutcomes ==
    { [raises |-> FALSE, value |-> "{'results': []}"],
      [raises |-> TRUE, value |-> "RuntimeError: backend down"] }

\* self.metrics.total_executions += 1
metrics_on_start(m) == [m EXCEPT !.total_executions = @ + 1]

\* The success branch of execute.
metrics_on_success(m) ==
    [m EXCEPT !.success_rate =
        Fraction(m.total_executions - m.failed_executions, m.total_executions)]

\* The except branch with the success rate left as it was.
metrics_on_failure_stale(m) ==
    [m EXCEPT !.failed_executions = @ + 1]

\* The except branch of execute.
metrics_on_failure(m) ==
    [m EXCEPT !.failed_executions = @ + 1,
              !.success_rate =
                  Fraction(m.total_executions - (m.failed_executions + 1),
                           Max(m.total_executions, 1))]

\* execute without its try/except: the exception of the tool's logic leaves
\* the call.
execute_result_propagating(tool, impl) ==
    LET started == metrics_on_start(tool.metrics) IN
    IF impl.raises
    THEN [tool |-> [tool EXCEPT !.metrics = started],
          raised |-> impl.value,
          result |-> ToolResult(FALSE, NoData, impl.value)]
    ELSE [tool |-> [tool EXCEPT !.metrics = metrics_on_success(started)],
          raised |-> NoError,
          result |-> ToolResult(TRUE, impl.value, NoError)]

\* Tool.execute(params, context) on an instance, _execute_impl doing impl.
execute_result(tool, impl) ==
    LET started == metrics_on_start(tool.metrics) IN
    IF impl.raises
    THEN [tool |-> [tool EXCEPT !.metrics = metrics_on_failure(started)],
          raised |-> NoError,
          result |-> ToolResult(FALSE, NoData, impl.value)]
    ELSE [tool |-> [tool EXCEPT !.metrics = metrics_on_success(started)],
          raised |-> NoError,
          result |-> ToolResult(TRUE, impl.value, NoError)]

\* What can_handle answers in one call: a score in tenths, or it raises.
RawScores == {0, 5, 10}
ScoreScale == 10
CanHandleOutcomes ==
    {[raises |-> TRUE, raw |-> 0]} \cup {[raises |-> FALSE, raw |-> r] : r \in RawScores}

\* min_confidence in tenths; the default is 0.1.
DefaultMinConfidence == 1
MinConfidences == {0, DefaultMinConfidence, 5}

\* The context dict of select_tool: its confidence is a number, or something
\* float() rejects.
SelectContexts ==
    { [intent |-> "search", confidence |-> JFloat(1)],
      [intent |-> "search", confidence |-> JDict(EmptyDict)] }

Floatable(value) == value.type \in {"float", "int"}

\* What the tools' can_handle answer to a context: no tool is asked when
\* the context is rejected.
NotAsked == [raises |-> FALSE, raw |-> 0]
CanHandleAnswers(reg, context) ==
    IF Floatable(context.confidence)
    THEN [Names(reg) -> CanHandleOutcomes]
    ELSE {[n \in Names(reg) |-> NotAsked]}

\* confidence * (0.8 + 0.2 * tool.metrics.success_rate)
adjusted_confidence(confidence, success_rate) ==
    FMul(confidence, FAdd(Fraction(8, 10), FMul(Fraction(2, 10), success_rate)))

\* The loop of select_tool over self._tools.values(), from the i-th tool on.
RECURSIVE select_scan(_, _, _, _, _)
select_scan(reg, outcomes, min_confidence, i, best) ==
    IF i > Len(reg) THEN best
    ELSE LET o == outcomes[reg[i].name]
             adjusted == adjusted_confidence(Fraction(o.raw, ScoreScale),
                                             reg[i].meta.metrics.success_rate)
         IN  IF ~o.raises /\ FGreater(adjusted, best.confidence)
                          /\ FAtLeast(adjusted, min_confidence)
             THEN select_scan(reg, outcomes, min_confidence, i + 1,
                              [tool |-> reg[i].name, confidence |-> adjusted])
             ELSE select_scan(reg, outcomes, min_confidence, i + 1, best)

\* ToolRegistry.select_tool(context, min_confidence): the name of the tool
\* returned, NoTool for None.
select_tool_result(reg, context, min_confidence, outcomes) ==
    IF ~Floatable(context.confidence) THEN NoTool
    ELSE select_scan(reg, outcomes, Fraction(min_confidence, ScoreScale), 1,
                     [tool |-> NoTool, confidence |-> Fraction(0, 1)]).tool

---------------------------------------------------------------------------
(* Tool specification: one ToolRegistry, one caller.                       *)

outsideTools == <<catalogVars, singletonVars, threadVars, aliasVars, ctxVars>>
toolRest == <<chains, version_history, tool_stats, patterns>>
nonToolVars == <<outsideTools, toolRest>>

\* Nothing but a ToolRegistry is constructed.
NoRegistryNoStore ==
    /\ agents = EmptyCatalog
    /\ file = EmptyCatalog
    /\ clock = 0
    /\ failures = 0
    /\ instance = 0
    /\ objects = 0
    /\ pc = <<>>
    /\ call = <<>>
    /\ outcome = <<>>
    /\ start = [agents |-> EmptyCatalog, file |-> EmptyCatalog]
    /\ heap = <<>>
    /\ store = EmptyDict
    /\ redis = EmptyDict
    /\ time = 0
    /\ delivered = <<>>
    /\ lock = "free"

InitTools ==
    /\ agents = EmptyCatalog
    /\ file = EmptyCatalog
    /\ clock = 0
    /\ failures = 0
    /\ ret = [op |-> "init", arg |-> "", error |-> NoError]
    /\ instance = 0
    /\ objects = 0
    /\ pc = <<>>
    /\ call = <<>>
    /\ outcome = <<>>
    /\ start = [agents |-> EmptyCatalog, file |-> EmptyCatalog]
    /\ NoExt

\* ToolRegistry.register(tool_class).  Every class of a name carries the same
\* version here, so the version branch is not taken; the version lists are
\* read by neither execute nor select_tool.
register(tool_class) ==
    /\ IF tool_class.name = NamelessTool
       THEN /\ ret' = [op |-> "register", arg |-> tool_class.name, error |-> MustHaveName]
            /\ UNCHANGED <<tools, executed>>
       ELSE /\ tools' = SetItem(tools, tool_class.name, NewTool(tool_class))
            /\ executed' = DictUpdate(executed,
                                      tool_class.name :> [calls |-> 0, failed |-> 0])
            /\ ret' = [op |-> "register", arg |-> tool_class.name, error |-> NoError]
    /\ UNCHANGED nonToolVars

\* tool.execute(params, context) on the registered instance.
execute(name, impl) ==
    /\ name \in Names(tools)
    /\ MetaOf(tools, name).metrics.total_executions < MaxExecutions
    /\ LET r == execute_result(MetaOf(tools, name), impl) IN
       /\ tools' = SetItem(tools, name, r.tool)
       /\ executed' = [executed EXCEPT
              ![name] = [calls |-> @.calls + 1,
                         failed |-> @.failed +
                            (IF r.raised = NoError /\ ~r.result.success THEN 1 ELSE 0)]]
       /\ ret' = [op |-> "execute", arg |-> name, impl |-> impl,
                  raised |-> r.raised, result |-> r.result]
    /\ UNCHANGED nonToolVars

\* ToolRegistry.select_tool(context, min_confidence)
select_tool(context, min_confidence, outcomes) ==
    /\ ret' = [op |-> "select_tool", context |-> context,
               min_confidence |-> min_confidence, outcomes |-> outcomes,
               result |-> select_tool_result(tools, context, min_confidence, outcomes)]
    /\ UNCHANGED <<tools, executed, nonToolVars>>

NextTools ==
    \/ \E c \in ToolClasses : register(c)
    \/ \E n \in ToolNames, impl \in ImplOutcomes : execute(n, impl)
    \/ \E c \in SelectContexts, m \in MinConfidences :
          \E o \in CanHandleAnswers(tools, c) : select_tool(c, m, o)

SpecTools == InitTools /\ [][NextTools]_vars

---------------------------------------------------------------------------
(* Claims about tools. *)

\* The instance registered under a name, and its success rate.
ToolOf(reg, n) == MetaOf(reg, n)
SuccessRate(reg, n) == ToolOf(reg, n).metrics.success_rate

\* The registered tools whose can_handle answered, i.e. did not raise.
Answered(reg, outcomes) == {n \in Names(reg) : ~outcomes[n].raises}

\* adjusted = raw * (0.8 + 0.2 * success_rate), with raw in tenths and
\* success_rate = num/den, is raw * (4 * den + num) / (50 * den).
\* adjusted(a) >= adjusted(b):
AdjustedAtLeast(reg, outcomes, a, b) ==
    outcomes[a].raw * (4 * SuccessRate(reg, a).den + SuccessRate(reg, a).num)
                    * SuccessRate(reg, b).den
    >= outcomes[b].raw * (4 * SuccessRate(reg, b).den + SuccessRate(reg, b).num)
                       * SuccessRate(reg, a).den

\* adjusted(a) >= min_confidence, min_confidence in tenths:
ClearsMinimum(reg, outcomes, a, min_confidence) ==
    outcomes[a].raw * (4 * SuccessRate(reg, a).den + SuccessRate(reg, a).num)
    >= 5 * min_confidence * SuccessRate(reg, a).den

Eligible(reg, outcomes, min_confidence) ==
    {n \in Answered(reg, outcomes) : ClearsMinimum(reg, outcomes, n, min_confidence)}

WellFormed(context) == context.confidence.type = "float"

(* C18: select_tool on a well-formed context returns, among the tools      *)
(* whose can_handle did not raise and whose adjusted score is at least     *)
(* min_confidence, one with the highest adjusted score, and returns none   *)
(* exactly when there is no such tool.                                     *)
C18_SelectsBestAboveMinimum ==
    [][(ret'.op = "select_tool" /\ WellFormed(ret'.context))
        => LET ok == Eligible(tools, ret'.outcomes, ret'.min_confidence) IN
           /\ (ret'.result = NoTool) <=> (ok = {})
           /\ ret'.result # NoTool
                 => /\ ret'.result \in ok
                    /\ \A n \in ok :
                          AdjustedAtLeast(tools, ret'.outcomes, ret'.result, n)]_vars

(* C19: execute never lets an exception of the tool's logic escape: when   *)
(* _execute_impl raises, execute returns success = false with the error    *)
(* message; when it returns, execute returns success = true with the       *)
(* returned data.                                                          *)
C19_ExecuteConvertsExceptions ==
    [][ret'.op = "execute"
        => /\ ret'.raised = NoError
           /\ ret'.impl.raises
                 => /\ ~ret'.result.success
                    /\ ret'.result.error_message = ret'.impl.value
           /\ ~ret'.impl.raises
                 => /\ ret'.result.success
                    /\ ret'.result.data = ret'.impl.value]_vars

C19_Witness ==
    /\ ret.op = "execute"
    /\ ret.impl.raises
    /\ ~ret.result.success
    /\ ret.result.error_message = "RuntimeError: backend down"

(* C20: for every registered tool, total_executions is the number of       *)
(* execute calls made on it, failed_executions the number of those that    *)
(* returned success = false, failed_executions <= total_executions, and    *)
(* once it was executed success_rate = (total - failed) / total; the       *)
(* success rate lies in [0, 1].                                            *)
C20_MetricsCountCalls ==
    \A n \in Names(tools) :
        LET m == ToolOf(tools, n).metrics IN
        /\ m.total_executions = executed[n].calls
        /\ m.failed_executions = executed[n].failed
        /\ m.failed_executions <= m.total_executions
        /\ m.total_executions > 0
              => m.success_rate.num * m.total_executions
                 = (m.total_executions - m.failed_executions) * m.success_rate.den
        /\ 0 <= m.success_rate.num
        /\ m.success_rate.num <= m.success_rate.den

C20_Witness ==
    \E n \in Names(tools) :
        LET m == ToolOf(tools, n).metrics IN
        /\ m.total_executions >= 2
        /\ m.failed_executions > 0
        /\ m.failed_executions < m.total_executions
        /\ ret.op = "execute" /\ ret.arg = n /\ ~ret.result.success

---------------------------------------------------------------------------
(* Timed specification: Tool.execute with the duration of each call and    *)
(* the time fields of ToolMetrics.  executed holds, per tool, the calls    *)
(* made, how many failed and the sum of their durations.                   *)

\* time.time() - start_time of one call, in ticks.
Durations == {1, 3}

NeverExecuted == "None"
Now == "datetime.now()"

\* ToolMetrics() with its time fields.
TimedToolMetrics ==
    [total_executions |-> 0, failed_executions |-> 0, success_rate |-> Fraction(0, 1),
     execution_time |-> Fraction(0, 1), last_execution |-> NeverExecuted]

\* (execution_time * (total_executions - 1) + execution_time) / total_executions
online_average(average, n, sample) ==
    FMul(FAdd(FMul(average, Fraction(n - 1, 1)), Fraction(sample, 1)), Fraction(1, n))

\* The time fields as the success branch of execute leaves them; m is the
\* metrics after the branch's other updates.
timed_on_success(m, duration) ==
    [m EXCEPT !.execution_time = online_average(@, m.total_executions, duration),
              !.last_execution = Now]

\* Tool.execute on an instance whose _execute_impl does impl and takes
\* duration: the except branch leaves the time fields alone.
execute_timed_result(tool, impl, duration) ==
    LET r == execute_result(tool, impl) IN
    IF impl.raises THEN r
    ELSE [r EXCEPT !.tool.metrics = timed_on_success(@, duration)]

InitTimed ==
    /\ ret = [op |-> "init", arg |-> "", error |-> NoError]
    /\ NoRegistryNoStore
    /\ chains = <<>>
    /\ version_history = <<>>
    /\ tool_stats = <<>>
    /\ patterns = <<>>
    /\ tools = <<[name |-> "search",
                  meta |-> [version |-> DefaultVersion, metrics |-> TimedToolMetrics]],
                 [name |-> "summarize",
                  meta |-> [version |-> DefaultVersion, metrics |-> TimedToolMetrics]]>>
    /\ executed = [n \in ToolNames |-> [calls |-> 0, failed |-> 0, elapsed |-> 0]]

\* tool.execute(params, context) taking duration ticks.
execute_timed(name, impl, duration) ==
    /\ name \in Names(tools)
    /\ MetaOf(tools, name).metrics.total_executions < MaxExecutions
    /\ LET r == execute_timed_result(MetaOf(tools, name), impl, duration) IN
       /\ tools' = SetItem(tools, name, r.tool)
       /\ executed' = [executed EXCEPT
              ![name] = [calls |-> @.calls + 1,
                         failed |-> @.failed + (IF r.result.success THEN 0 ELSE 1),
                         elapsed |-> @.elapsed + duration]]
       /\ ret' = [op |-> "execute", arg |-> name, impl |-> impl, duration |-> duration,
                  raised |-> r.raised, result |-> r.result]
    /\ UNCHANGED nonToolVars

NextTimed ==
    \E n \in ToolNames, impl \in ImplOutcomes, d \in Durations : execute_timed(n, impl, d)

SpecTimed == InitTimed /\ [][NextTimed]_vars

(* C21: once a tool was executed, its execution_time is the arithmetic     *)
(* mean of the durations of all execute calls made on it, successful or    *)
(* failed.                                                                 *)
C21_ExecutionTimeIsMean ==
    \A n \in Names(tools) :
        executed[n].calls > 0
           => ToolOf(tools, n).metrics.execution_time.num * executed[n].calls
              = executed[n].elapsed * ToolOf(tools, n).metrics.execution_time.den

---------------------------------------------------------------------------
(* Parameter specification: Tool.execute with the params it is given.      *)
(* Tool leaves _execute_impl to the subclass; the subclasses differ in     *)
(* what they do with params: SearchTool calls validate_params first, a     *)
(* subclass may read a required parameter without validating, or not look  *)
(* at params at all.                                                       *)

JNone == [type |-> "NoneType"]

RequiredParams == {"entities"}

ParamInputs ==
    { JDict("entities" :> JStr("flights")), JDict(EmptyDict), JNone }

Validating == "calls validate_params"
Reading == "reads params['entities']"
Ignoring == "does not read params"
ImplKinds == {Validating, Reading, Ignoring}

MissingParameters == "ValueError: Missing required parameters"
ParamKeyError == "KeyError: 'entities'"
NotSubscriptable == "TypeError: 'NoneType' object is not subscriptable"

\* Tool.validate_params(params)
validate_params(params, required_params) ==
    IF ~IsDict(params) THEN FALSE
    ELSE \A param \in required_params : param \in DOMAIN params.items

\* What _execute_impl of a subclass of the given kind does with params.
execute_impl(kind, required_params, params) ==
    CASE kind = Validating ->
            IF ~validate_params(params, required_params)
            THEN [raises |-> TRUE, value |-> MissingParameters]
            ELSE [raises |-> FALSE, value |-> "{'status': 'completed'}"]
      [] kind = Reading ->
            IF ~IsDict(params) THEN [raises |-> TRUE, value |-> NotSubscriptable]
            ELSE IF "entities" \notin DOMAIN params.items
                 THEN [raises |-> TRUE, value |-> ParamKeyError]
                 ELSE [raises |-> FALSE, value |-> "{'status': 'completed'}"]
      [] kind = Ignoring -> [raises |-> FALSE, value |-> "{'status': 'completed'}"]

\* One instance per kind of subclass, each requiring RequiredParams.
ParamTool(kind) ==
    [version |-> DefaultVersion, metrics |-> ToolMetrics,
     required_params |-> RequiredParams, kind |-> kind]

InitParams ==
    /\ ret = [op |-> "init", arg |-> "", error |-> NoError]
    /\ NoRegistryNoStore
    /\ chains = <<>>
    /\ version_history = <<>>
    /\ tool_stats = <<>>
    /\ patterns = <<>>
    /\ tools = <<[name |-> "search", meta |-> ParamTool(Validating)],
                 [name |-> "lookup", meta |-> ParamTool(Reading)],
                 [name |-> "status", meta |-> ParamTool(Ignoring)]>>
    /\ executed = [n \in {"search", "lookup", "status"} |-> [calls |-> 0, failed |-> 0]]

\* tool.execute(params, context)
execute_with_params(name, params) ==
    /\ name \in Names(tools)
    /\ MetaOf(tools, name).metrics.total_executions < MaxExecutions
    /\ LET tool == MetaOf(tools, name)
           impl == execute_impl(tool.kind, tool.required_params, params)
           r == execute_result(tool, impl)
       IN  /\ tools' = SetItem(tools, name, r.tool)
           /\ executed' = [executed EXCEPT
                  ![name] = [calls |-> @.calls + 1,
                             failed |-> @.failed + (IF r.result.success THEN 0 ELSE 1)]]
           /\ ret' = [op |-> "execute", arg |-> name, params |-> params, impl |-> impl,
                      raised |-> r.raised, result |-> r.result]
    /\ UNCHANGED nonToolVars

NextParams ==
    \E n \in Names(tools), p \in ParamInputs : execute_with_params(n, p)

SpecParams == InitParams /\ [][NextParams]_vars

\* params is a map holding every required parameter of the tool.
HasRequired(reg, n, params) ==
    /\ params.type = "dict"
    /\ ToolOf(reg, n).required_params \subseteq DOMAIN params.items

(* C22: an execute call whose params are not a map, or lack a required     *)
(* parameter of the tool, does not run the tool's logic to completion and  *)
(* returns success = false.                                                *)
C22_ExecuteValidatesParams ==
    [][(ret'.op = "execute" /\ ~HasRequired(tools, ret'.arg, ret'.params))
        => /\ ret'.impl.raises
           /\ ~ret'.result.success]_vars

---------------------------------------------------------------------------
(* Chain specification: ToolRegistry.define_chain and execute_chain over   *)
(* a registry holding two tools.                                           *)

Link(tool, threshold) == [tool |-> tool, threshold |-> threshold]

\* Chains passed to define_chain: (tool_name, threshold) pairs, thresholds in
\* tenths; "translate" is not registered.
ChainInputs ==
    { <<Link("search", 0), Link("summarize", 5)>>,
      <<Link("summarize", 10), Link("search", 0)>>,
      <<Link("translate", 0), Link("search", 5), Link("search", 10)>> }

ChainIntents == {"search"}
ChainContexts == {[intent |-> "search"], [intent |-> "report"]}

NoResults ==
    [results |-> <<>>, ran |-> <<>>, rates |-> <<>>, chain_context |-> {}]

\* not result.success or tool.metrics.success_rate < threshold
chain_stops(result, success_rate, threshold) ==
    \/ ~result.success
    \/ FGreater(Fraction(threshold, ScoreScale), success_rate)

\* The loop of execute_chain without its break.
RECURSIVE chain_scan_through(_, _, _, _)
chain_scan_through(chain, impls, i, acc) ==
    IF i > Len(chain) THEN acc
    ELSE IF chain[i].tool \notin Names(acc.tools)
    THEN chain_scan_through(chain, impls, i + 1, acc)
    ELSE LET r == execute_result(MetaOf(acc.tools, chain[i].tool), impls[i])
         IN  chain_scan_through(chain, impls, i + 1,
                [tools |-> SetItem(acc.tools, chain[i].tool, r.tool),
                 results |-> Append(acc.results, r.result),
                 ran |-> Append(acc.ran, i),
                 rates |-> Append(acc.rates, r.tool.metrics.success_rate),
                 chain_context |-> acc.chain_context \cup {r.result.data}])

\* The loop of execute_chain from the i-th link on.  acc carries the
\* registry's tools, the results so far, the links executed, the success
\* rate of each executed tool right after its execution, and chain_context.
RECURSIVE chain_scan(_, _, _, _)
chain_scan(chain, impls, i, acc) ==
    IF i > Len(chain) THEN acc
    ELSE IF chain[i].tool \notin Names(acc.tools)
    THEN chain_scan(chain, impls, i + 1, acc)
    ELSE LET r == execute_result(MetaOf(acc.tools, chain[i].tool), impls[i])
             next == [tools |-> SetItem(acc.tools, chain[i].tool, r.tool),
                      results |-> Append(acc.results, r.result),
                      ran |-> Append(acc.ran, i),
                      rates |-> Append(acc.rates, r.tool.metrics.success_rate),
                      chain_context |-> acc.chain_context]
         IN  IF chain_stops(r.result, r.tool.metrics.success_rate, chain[i].threshold)
             THEN next
             ELSE chain_scan(chain, impls, i + 1,
                     [next EXCEPT !.chain_context = @ \cup {r.result.data}])

\* ToolRegistry.execute_chain(context), the i-th link's _execute_impl doing
\* impls[i].
execute_chain_result(reg, definitions, context, impls) ==
    IF context.intent \notin DOMAIN definitions
    THEN [tools |-> reg] @@ NoResults
    ELSE chain_scan(definitions[context.intent], impls, 1, [tools |-> reg] @@ NoResults)

\* How often a chain names a tool.
Occurrences(chain, name) == Cardinality({i \in DOMAIN chain : chain[i].tool = name})

ChainOf(definitions, context) ==
    IF context.intent \in DOMAIN definitions THEN definitions[context.intent] ELSE <<>>

InitChain ==
    /\ ret = [op |-> "init", arg |-> "", error |-> NoError]
    /\ NoRegistryNoStore
    /\ chains = <<>>
    /\ version_history = <<>>
    /\ tool_stats = <<>>
    /\ patterns = <<>>
    /\ tools = <<[name |-> "search", meta |-> NewTool([version |-> DefaultVersion])],
                 [name |-> "summarize", meta |-> NewTool([version |-> DefaultVersion])]>>
    /\ executed = [n \in ToolNames |-> [calls |-> 0, failed |-> 0]]

\* ToolRegistry.define_chain(intent, chain)
define_chain(intent, chain) ==
    /\ chains' = DictUpdate(chains, intent :> chain)
    /\ ret' = [op |-> "define_chain", arg |-> intent, error |-> NoError]
    /\ UNCHANGED <<tools, executed, version_history, tool_stats, patterns, outsideTools>>

\* ToolRegistry.execute_chain(context)
execute_chain(context, impls) ==
    LET chain == ChainOf(chains, context)
        r == execute_chain_result(tools, chains, context, impls)
    IN  /\ \A n \in Names(tools) :
              MetaOf(tools, n).metrics.total_executions + Occurrences(chain, n)
                 <= MaxExecutions
        /\ tools' = r.tools
        /\ executed' =
              [n \in DOMAIN executed |->
                  [calls |-> executed[n].calls
                        + Cardinality({k \in DOMAIN r.ran : chain[r.ran[k]].tool = n}),
                   failed |-> executed[n].failed
                        + Cardinality({k \in DOMAIN r.ran :
                              chain[r.ran[k]].tool = n /\ ~r.results[k].success})]]
        /\ ret' = [op |-> "execute_chain", context |-> context, impls |-> impls,
                   raised |-> NoError, results |-> r.results, ran |-> r.ran,
                   rates |-> r.rates, chain_context |-> r.chain_context]
        /\ UNCHANGED <<toolRest, outsideTools>>

NextChain ==
    \/ \E i \in ChainIntents, c \in ChainInputs : define_chain(i, c)
    \/ \E c \in ChainContexts :
          \E impls \in [DOMAIN ChainOf(chains, c) -> ImplOutcomes] : execute_chain(c, impls)
    \/ \E n \in ToolNames, impl \in ImplOutcomes : execute(n, impl)

SpecChain == InitChain /\ [][NextChain]_vars

\* The links of a chain that name a registered tool, by position.
KnownLinks(reg, chain) == {i \in DOMAIN chain : chain[i].tool \in Names(reg)}

\* The k-th executed tool failed, or its success rate right after that
\* execution was below its link's threshold.
StopsAt(r, chain, k) ==
    \/ ~r.results[k].success
    \/ r.rates[k].num * 10 < chain[r.ran[k]].threshold * r.rates[k].den

(* C23: execute_chain does not raise; it executes the chain's registered   *)
(* tools in the defined order, each result is that of the tool's           *)
(* execution, no tool before the last executed one failed or fell below    *)
(* its threshold, the run ends before the end of the chain only at a tool  *)
(* that failed or fell below its threshold, and no other tool is executed. *)
C23_ChainStopsAtFirstFailure ==
    [][ret'.op = "execute_chain"
        => LET chain == IF ret'.context.intent \in DOMAIN chains
                        THEN chains[ret'.context.intent] ELSE <<>>
               known == KnownLinks(tools, chain)
               n == Len(ret'.ran)
           IN  /\ ret'.raised = NoError
               /\ Len(ret'.results) = n
               /\ \A k \in 1..n :
                     /\ ret'.ran[k] \in known
                     /\ Cardinality({i \in known : i < ret'.ran[k]}) = k - 1
                     /\ ret'.results[k].success = ~ret'.impls[ret'.ran[k]].raises
                     /\ k < n => ~StopsAt(ret', chain, k)
               /\ n < Cardinality(known) => n > 0 /\ StopsAt(ret', chain, n)
               /\ \A t \in Names(tools) :
                     ToolOf(tools', t).metrics.total_executions
                        - ToolOf(tools, t).metrics.total_executions
                     = Cardinality({k \in 1..n : chain[ret'.ran[k]].tool = t})]_vars

C23_Witness ==
    /\ ret.op = "execute_chain"
    /\ ret.context.intent \in DOMAIN chains
    /\ Len(chains[ret.context.intent]) = 2
    /\ Len(ret.ran) = 1
    /\ ret.results[1].success
    /\ ret.rates[1].num < ret.rates[1].den

---------------------------------------------------------------------------
(* Version specification: ToolRegistry.register with tool classes of       *)
(* several versions.  compatible_versions is a class attribute: an         *)
(* instance has no list of its own, tool.compatible_versions is the list   *)
(* object of the first class in its MRO that assigns one.  heap holds      *)
(* these list objects by the class that owns them.                         *)

MaxRegistrations == 3

\* The classes that assign compatible_versions, naming their list objects.
ToolList == "Tool"
SearchList == "SearchTool"
NewSearchList == "NewSearchTool"

\* The tool classes passed to register, each with the list object its
\* compatible_versions resolves to: SearchTool assigns its own list,
\* SearchToolV2(SearchTool) overrides version only, NewSearchTool is written
\* from scratch with its own list, the summarize classes inherit Tool's.
VersionedClasses ==
    { [class |-> "SearchTool", name |-> "search", version |-> "1.0.0",
       compatible_versions |-> SearchList],
      [class |-> "SearchToolV2(SearchTool)", name |-> "search", version |-> "1.1.0",
       compatible_versions |-> SearchList],
      [class |-> "NewSearchTool", name |-> "search", version |-> "2.0.0",
       compatible_versions |-> NewSearchList],
      [class |-> "SummarizeTool", name |-> "summarize", version |-> "1.0.0",
       compatible_versions |-> ToolList],
      [class |-> "SummarizeToolV2", name |-> "summarize", version |-> "2.0.0",
       compatible_versions |-> ToolList] }

\* tool_class(): the instance, with the list its compatible_versions names.
NewVersionedTool(tool_class) ==
    [version |-> tool_class.version, metrics |-> ToolMetrics,
     compatible_versions |-> tool_class.compatible_versions]

\* The lists after the version check of register: the version of the
\* instance being replaced is appended to that instance's list.
register_compatible(reg, lists, tool_class) ==
    IF /\ tool_class.name \in Names(reg)
       /\ MetaOf(reg, tool_class.name).version # tool_class.version
    THEN [lists EXCEPT ![MetaOf(reg, tool_class.name).compatible_versions] =
             Append(@, MetaOf(reg, tool_class.name).version)]
    ELSE lists

\* self._version_history after register
register_history(history, tool_class) ==
    DictUpdate(history,
               tool_class.name :> Append(DictGet(history, tool_class.name, <<>>),
                                         tool_class.version))

InitVersions ==
    /\ ret = [op |-> "init", arg |-> "", error |-> NoError]
    /\ agents = EmptyCatalog
    /\ file = EmptyCatalog
    /\ clock = 0
    /\ failures = 0
    /\ instance = 0
    /\ objects = 0
    /\ pc = <<>>
    /\ call = <<>>
    /\ outcome = <<>>
    /\ start = [agents |-> EmptyCatalog, file |-> EmptyCatalog]
    /\ heap = [c \in {ToolList, SearchList, NewSearchList} |->
                  IF c = SearchList THEN <<"0.9.0">> ELSE <<>>]
    /\ store = EmptyDict
    /\ redis = EmptyDict
    /\ time = 0
    /\ delivered = <<>>
    /\ lock = "free"
    /\ tools = <<>>
    /\ executed = <<>>
    /\ chains = <<>>
    /\ version_history = <<>>
    /\ tool_stats = <<>>
    /\ patterns = <<>>

\* ToolRegistry.register(tool_class)
register_version(tool_class) ==
    /\ Len(DictGet(version_history, tool_class.name, <<>>)) < MaxRegistrations
    /\ heap' = register_compatible(tools, heap, tool_class)
    /\ tools' = SetItem(tools, tool_class.name, NewVersionedTool(tool_class))
    /\ version_history' = register_history(version_history, tool_class)
    /\ executed' = DictUpdate(executed, tool_class.name :> [calls |-> 0, failed |-> 0])
    /\ ret' = [op |-> "register", arg |-> tool_class.name,
               version |-> tool_class.version, error |-> NoError]
    /\ UNCHANGED <<catalogVars, singletonVars, threadVars, ctxVars,
                   chains, tool_stats, patterns>>

NextVersions == \E c \in VersionedClasses : register_version(c)

SpecVersions == InitVersions /\ [][NextVersions]_vars

\* tool.compatible_versions of the instance registered under a name
CompatibleVersions(reg, lists, n) == lists[ToolOf(reg, n).compatible_versions]

(* C24: registering a class under a name that is registered with another   *)
(* version leaves the name registered with the new version, and the        *)
(* compatible_versions of the tool registered under the name contain the   *)
(* version it replaced.                                                    *)
C24_ReRegisterKeepsOldVersion ==
    [][(/\ ret'.op = "register"
        /\ ret'.arg \in Names(tools)
        /\ ToolOf(tools, ret'.arg).version # ret'.version)
        => /\ ToolOf(tools', ret'.arg).version = ret'.version
           /\ InSeq(ToolOf(tools, ret'.arg).version,
                    CompatibleVersions(tools', heap', ret'.arg))]_vars

---------------------------------------------------------------------------
(* Discovery specification (src/tools/discovery.py): ToolDiscovery over    *)
(* an empty data directory.  A context is a dict; its "entities" and       *)
(* "metadata" are dicts of which only the keys are read, kept here as the  *)
(* sequence of keys in insertion order.  The JSON files written after      *)
(* each change mirror the two stores and are never read back.              *)

MaxRecords == 3

DiscoveryContexts ==
    { [intent |-> "find", entities |-> <<"city", "date">>],
      [intent |-> "find", entities |-> <<"date", "city">>, metadata |-> <<"source">>],
      [entities |-> <<"city">>] }

\* execution_time arguments, in ticks.
RecordedTimes == {1}

UnknownIntent == "unknown"

Range(s) == {s[i] : i \in DOMAIN s}

NewToolStats ==
    [success_count |-> 0, total_executions |-> 0,
     avg_execution_time |-> Fraction(0, 1), intent_patterns |-> EmptyDict]

\* The statistics part of record_tool_execution.
record_stats(stats, tool_name, context, success, execution_time) ==
    LET old == DictGet(stats, tool_name, NewToolStats)
        total == old.total_executions + 1
        intent == DictGet(context, "intent", UnknownIntent)
        seen == DictGet(old.intent_patterns, intent, [count |-> 0, success_count |-> 0])
    IN  DictUpdate(stats, tool_name :>
           [success_count |-> old.success_count + (IF success THEN 1 ELSE 0),
            total_executions |-> total,
            avg_execution_time |->
                online_average(old.avg_execution_time, total, execution_time),
            intent_patterns |->
                DictUpdate(old.intent_patterns, intent :>
                    [count |-> seen.count + 1,
                     success_count |-> seen.success_count + (IF success THEN 1 ELSE 0)])])

\* new_pattern of _learn_tool_pattern
NewPattern(tool_name, context) ==
    [tool_name |-> tool_name,
     intent |-> DictGet(context, "intent", UnknownIntent),
     entities_present |-> DictGet(context, "entities", <<>>),
     metadata_keys |-> DictGet(context, "metadata", <<>>),
     learned_at |-> Now]

\* pattern_exists of _learn_tool_pattern
pattern_exists(pats, new_pattern) ==
    \E i \in DOMAIN pats :
        /\ pats[i].tool_name = new_pattern.tool_name
        /\ pats[i].intent = new_pattern.intent
        /\ Range(pats[i].entities_present) = Range(new_pattern.entities_present)

\* _learn_tool_pattern without the check for a similar pattern.
learn_tool_pattern_always(pats, tool_name, context) ==
    Append(pats, NewPattern(tool_name, context))

\* ToolDiscovery._learn_tool_pattern(tool_name, context)
learn_tool_pattern(pats, tool_name, context) ==
    IF pattern_exists(pats, NewPattern(tool_name, context))
    THEN pats
    ELSE Append(pats, NewPattern(tool_name, context))

RECURSIVE Recorded(_, _)
Recorded(stats, names) ==
    IF names = {} THEN 0
    ELSE LET n == CHOOSE x \in names : TRUE
         IN  stats[n].total_executions + Recorded(stats, names \ {n})

InitDiscovery ==
    /\ ret = [op |-> "init", arg |-> "", error |-> NoError]
    /\ NoRegistryNoStore
    /\ tools = <<>>
    /\ executed = <<>>
    /\ chains = <<>>
    /\ version_history = <<>>
    /\ tool_stats = EmptyDict
    /\ patterns = <<>>

\* ToolDiscovery.record_tool_execution(tool_name, context, success, execution_time)
record_tool_execution(tool_name, context, success, execution_time) ==
    /\ Recorded(tool_stats, DOMAIN tool_stats) < MaxRecords
    /\ tool_stats' = record_stats(tool_stats, tool_name, context, success, execution_time)
    /\ patterns' = IF success THEN learn_tool_pattern(patterns, tool_name, context)
                   ELSE patterns
    /\ ret' = [op |-> "record_tool_execution", arg |-> tool_name, context |-> context,
               success |-> success, error |-> NoError]
    /\ UNCHANGED <<tools, executed, chains, version_history, outsideTools>>

NextDiscovery ==
    \E n \in ToolNames, c \in DiscoveryContexts, s \in BOOLEAN, t \in RecordedTimes :
        record_tool_execution(n, c, s, t)

SpecDiscovery == InitDiscovery /\ [][NextDiscovery]_vars

\* The combination a pattern stands for: tool, intent, set of entity keys.
Combination(p) == <<p.tool_name, p.intent, {p.entities_present[i] : i \in DOMAIN p.entities_present}>>

\* The combination of a recorded execution.
RecordedCombination(r) ==
    <<r.arg,
      IF "intent" \in DOMAIN r.context THEN r.context.intent ELSE "unknown",
      IF "entities" \in DOMAIN r.context
      THEN {r.context.entities[i] : i \in DOMAIN r.context.entities} ELSE {}>>

Combinations(pats) == {Combination(pats[i]) : i \in DOMAIN pats}

(* C25: the pattern store never holds two patterns for one combination of  *)
(* tool name, intent and set of entity keys; a failed execution, and a     *)
(* successful one whose combination is already stored, leave the store as  *)
(* it was; any other adds one pattern, for that combination, at the end.   *)
C25_PatternLearningIdempotent ==
    /\ [](\A i, j \in DOMAIN patterns :
             Combination(patterns[i]) = Combination(patterns[j]) => i = j)
    /\ [][ret'.op = "record_tool_execution"
          => IF ret'.success /\ RecordedCombination(ret') \notin Combinations(patterns)
             THEN /\ Len(patterns') = Len(patterns) + 1
                  /\ SubSeq(patterns', 1, Len(patterns)) = patterns
                  /\ Combination(patterns'[Len(patterns')]) = RecordedCombination(ret')
             ELSE patterns' = patterns]_vars

C25_Witness ==
    /\ ret.op = "record_tool_execution"
    /\ ret.success
    /\ \E i \in DOMAIN patterns :
          /\ Combination(patterns[i]) = RecordedCombination(ret)
          /\ patterns[i].entities_present # ret.context.entities

---------------------------------------------------------------------------
(* Concurrent tool specification: the threads call execute on one Tool     *)
(* instance.  execute takes no lock; an augmented assignment x += 1 is a   *)
(* load followed by a store, and the interpreter may switch threads in     *)
(* between.  call[t].loaded is the value thread t loaded.                  *)

SharedTool == "search"

toolConcFrame == <<catalogVars, singletonVars, start, aliasVars, ctxVars, toolRest>>

InitToolsConc ==
    /\ ret = [op |-> "init", arg |-> "", error |-> NoError]
    /\ agents = EmptyCatalog
    /\ file = EmptyCatalog
    /\ clock = 0
    /\ failures = 0
    /\ instance = 0
    /\ objects = 0
    /\ pc = Idle
    /\ call = NoCall
    /\ outcome = NoOutcome
    /\ start = [agents |-> EmptyCatalog, file |-> EmptyCatalog]
    /\ heap = <<>>
    /\ store = EmptyDict
    /\ redis = EmptyDict
    /\ time = 0
    /\ delivered = <<>>
    /\ lock = "free"
    /\ tools = <<[name |-> SharedTool, meta |-> NewTool([version |-> DefaultVersion])]>>
    /\ executed = (SharedTool :> [calls |-> 0, failed |-> 0])
    /\ chains = <<>>
    /\ version_history = <<>>
    /\ tool_stats = <<>>
    /\ patterns = <<>>

MetricsOf(reg) == MetaOf(reg, SharedTool).metrics

SetMetrics(reg, m) ==
    SetItem(reg, SharedTool, [MetaOf(reg, SharedTool) EXCEPT !.metrics = m])

\* execute is called; line 62 loads total_executions.
exec_load_total(t, impl) ==
    /\ pc[t] = "idle"
    /\ executed[SharedTool].calls < MaxExecutions
    /\ call' = [call EXCEPT ![t] = [op |-> "execute", impl |-> impl,
                                    loaded |-> MetricsOf(tools).total_executions]]
    /\ executed' = [executed EXCEPT ![SharedTool].calls = @ + 1]
    /\ outcome' = [outcome EXCEPT ![t] = "pending"]
    /\ Goto(t, "store_total")
    /\ UNCHANGED <<tools, ret, toolConcFrame>>

\* line 62 stores total_executions.
exec_store_total(t) ==
    /\ pc[t] = "store_total"
    /\ tools' = SetMetrics(tools, [MetricsOf(tools) EXCEPT
                                      !.total_executions = call[t].loaded + 1])
    /\ Goto(t, "impl")
    /\ UNCHANGED <<call, outcome, executed, ret, toolConcFrame>>

\* line 65: _execute_impl returns or raises; line 76 loads failed_executions.
exec_impl(t) ==
    /\ pc[t] = "impl"
    /\ IF call[t].impl.raises
       THEN /\ call' = [call EXCEPT ![t].loaded = MetricsOf(tools).failed_executions]
            /\ Goto(t, "store_failed")
       ELSE /\ Goto(t, "succeed")
            /\ UNCHANGED call
    /\ UNCHANGED <<tools, outcome, executed, ret, toolConcFrame>>

\* lines 69-73: the success branch computes the rate and returns.
exec_succeed(t) ==
    /\ pc[t] = "succeed"
    /\ tools' = SetMetrics(tools, metrics_on_success(MetricsOf(tools)))
    /\ outcome' = [outcome EXCEPT ![t] = "success"]
    /\ ret' = [op |-> "execute", arg |-> SharedTool, thread |-> t,
               result |-> ToolResult(TRUE, call[t].impl.value, NoError)]
    /\ Goto(t, "idle")
    /\ UNCHANGED <<call, executed, toolConcFrame>>

\* line 76 stores failed_executions, loaded on entering the except branch.
exec_store_failed(t) ==
    /\ pc[t] = "store_failed"
    /\ tools' = SetMetrics(tools, [MetricsOf(tools) EXCEPT
                                      !.failed_executions = call[t].loaded + 1])
    /\ Goto(t, "fail")
    /\ UNCHANGED <<call, outcome, executed, ret, toolConcFrame>>

\* lines 77-79: the except branch computes the rate and returns.
exec_fail(t) ==
    /\ pc[t] = "fail"
    /\ tools' = SetMetrics(tools,
          [MetricsOf(tools) EXCEPT !.success_rate =
              Fraction(MetricsOf(tools).total_executions
                          - MetricsOf(tools).failed_executions,
                       Max(MetricsOf(tools).total_executions, 1))])
    /\ executed' = [executed EXCEPT ![SharedTool].failed = @ + 1]
    /\ outcome' = [outcome EXCEPT ![t] = "failure"]
    /\ ret' = [op |-> "execute", arg |-> SharedTool, thread |-> t,
               result |-> ToolResult(FALSE, NoData, call[t].impl.value)]
    /\ Goto(t, "idle")
    /\ UNCHANGED <<call, toolConcFrame>>

NextToolsConc ==
    \E t \in Threads :
        \/ \E impl \in ImplOutcomes : exec_load_total(t, impl)
        \/ exec_store_total(t)
        \/ exec_impl(t)
        \/ exec_succeed(t)
        \/ exec_store_failed(t)
        \/ exec_fail(t)

SpecToolsConc == InitToolsConc /\ [][NextToolsConc]_vars

\* Every execute call that was started has returned.
AllReturned == \A t \in Threads : pc[t] = "idle"

(* C26: once all concurrent execute calls on a tool have returned,         *)
(* total_executions is the number of calls made, failed_executions the     *)
(* number of failed calls and success_rate is (total - failed) / total.    *)
C26_ConcurrentMetricsExact ==
    AllReturned
       => LET m == ToolOf(tools, SharedTool).metrics IN
          /\ m.total_executions = executed[SharedTool].calls
          /\ m.failed_executions = executed[SharedTool].failed
          /\ executed[SharedTool].calls > 0
                => m.success_rate.num * executed[SharedTool].calls
                   = (executed[SharedTool].calls - executed[SharedTool].failed)
                     * m.success_rate.den

---------------------------------------------------------------------------
(* Sharing specification: the in-memory store with nested dicts as the     *)
(* objects they are.  A nested dict lives in heap and a context value      *)
(* that is a dict is a reference to it; recursive_update stores the        *)
(* caller's value itself (original[key] = value) and merges into the       *)
(* stored dict in place.  The caller keeps the dicts it has passed and     *)
(* may pass them again.  Nested dicts hold scalars here.                   *)

JRef(i) == [type |-> "dict", ref |-> i]

IsRef(value) == "ref" \in DOMAIN value

\* The nested dicts a caller builds for the key "a".
NestedInputs == {"x" :> JInt(1), "y" :> JInt(2)}

\* recursive_update(original, updates) on a session's dict, the dict values
\* being references: the heap and the session's dict afterwards.
recursive_update_shared(h, original, updates) ==
    LET merging == {k \in DOMAIN updates :
                       /\ IsDict(updates[k])
                       /\ k \in DOMAIN original
                       /\ IsDict(original[k])}
    IN  [heap |-> [i \in DOMAIN h |->
                     IF \E k \in merging : original[k].ref = i
                     THEN LET k == CHOOSE k \in merging : original[k].ref = i
                          IN  DictUpdate(h[i], h[updates[k].ref])
                     ELSE h[i]],
         dict |-> [k \in DOMAIN original \cup DOMAIN updates |->
                     IF k \in DOMAIN updates /\ k \notin merging
                     THEN updates[k] ELSE original[k]]]

\* What get_context returns to a reader: the copy of the session's dict with
\* the nested dicts it refers to.
Resolved(h, context) ==
    [k \in DOMAIN context |->
        IF IsRef(context[k]) THEN JDict(h[context[k].ref]) ELSE context[k]]

InitShare ==
    /\ InitCtx

shareFrame == <<catalogVars, singletonVars, threadVars, toolVars, redis, time, delivered, lock>>

\* update_partial_context(session_id, {"a": nested}) with a dict the caller
\* has just built.
update_partial_context_new(session_id, nested) ==
    /\ Len(heap) < MaxRefs
    /\ LET base == ensure_session(store, session_id, time)
           r == recursive_update_shared(Append(heap, nested), MetaOf(base, session_id),
                                        "a" :> JRef(Len(heap) + 1))
       IN  /\ heap' = r.heap
           /\ store' = SetItem(base, session_id,
                               DictUpdate(r.dict, "_timestamp" :> JFloat(time)))
    /\ ret' = [op |-> "update_partial_context", arg |-> session_id, error |-> NoError]
    /\ UNCHANGED shareFrame

\* update_partial_context(session_id, partial) with the partial context of
\* an earlier call: {"a": the i-th dict}.
update_partial_context_again(session_id, i) ==
    /\ i \in DOMAIN heap
    /\ LET base == ensure_session(store, session_id, time)
           r == recursive_update_shared(heap, MetaOf(base, session_id), "a" :> JRef(i))
       IN  /\ heap' = r.heap
           /\ store' = SetItem(base, session_id,
                               DictUpdate(r.dict, "_timestamp" :> JFloat(time)))
    /\ ret' = [op |-> "update_partial_context", arg |-> session_id, error |-> NoError]
    /\ UNCHANGED shareFrame

\* set_context(session_id, key, value) with a scalar value.
set_context_scalar(session_id, key, value) ==
    /\ store' = set_context_result(store, session_id, key, value, time)
    /\ ret' = [op |-> "set_context", arg |-> session_id, error |-> NoError]
    /\ UNCHANGED <<heap, shareFrame>>

\* delete_context(session_id)
delete_context_shared(session_id) ==
    /\ store' = delete_context_result(store, session_id)
    /\ ret' = [op |-> "delete_context", arg |-> session_id, error |-> NoError]
    /\ UNCHANGED <<heap, shareFrame>>

\* get_context(session_id)
get_context_shared(session_id) ==
    /\ ret' = [op |-> "get_context", arg |-> session_id, error |-> NoError,
               value |-> Resolved(heap, get_context_result(store, session_id))]
    /\ UNCHANGED <<heap, store, shareFrame>>

NextShare ==
    \/ tick
    \/ \E s \in Sessions, n \in NestedInputs : update_partial_context_new(s, n)
    \/ \E s \in Sessions, i \in 1..MaxRefs : update_partial_context_again(s, i)
    \/ \E s \in Sessions, k \in ContextKeys, v \in ContextValues :
          set_context_scalar(s, k, v)
    \/ \E s \in Sessions : delete_context_shared(s)
    \/ \E s \in Sessions : get_context_shared(s)

SpecShare == InitShare /\ [][NextShare]_vars

\* What get_context(s) returns in a state: the session's keys with their
\* values, nested maps by content; nothing for a missing session.
Returned(st, h, s) ==
    IF Exists(st, s)
    THEN [k \in DOMAIN SessionOf(st, s) |->
            IF "ref" \in DOMAIN SessionOf(st, s)[k]
            THEN h[SessionOf(st, s)[k].ref] ELSE SessionOf(st, s)[k]]
    ELSE <<>>

(* C27: set_context, update_partial_context and delete_context on one      *)
(* session never change what get_context returns for another session.     *)
C27_SessionsIsolated ==
    [][ret'.op \in {"set_context", "update_partial_context", "delete_context"}
        => \A s \in Sessions \ {ret'.arg} :
              Returned(store', heap', s) = Returned(store, heap, s)]_vars

---------------------------------------------------------------------------
(* C28: the outcome of route_task(C) is determined by the records of the   *)
(* active agents listing C: when there is such an agent and each of them   *)
(* has valid metrics, route_task(C) returns the first of them with the     *)
(* highest score, whatever the records of the other agents hold.           *)
C28_RouteDependsOnCandidatesOnly ==
    [][\A c \in Capabilities :
          ( /\ ret'.op = "route_task"
            /\ ret'.arg = c
            /\ ActiveCandidates(agents, c) # {}
            /\ \A i \in ActiveCandidates(agents, c) : ValidMetrics(agents[i].meta) )
          => /\ ret'.error = NoError
             /\ \E i \in ActiveCandidates(agents, c) :
                   /\ agents[i].name = ret'.value
                   /\ \A j \in ActiveCandidates(agents, c) :
                         /\ StatedScore(agents[j].meta) <= StatedScore(agents[i].meta)
                         /\ StatedScore(agents[j].meta) = StatedScore(agents[i].meta)
                               => i <= j]_vars

---------------------------------------------------------------------------
(* The sweep and live sessions, under the concurrent specification.        *)

\* A step of gc_worker.
CollectorStep == pc'[Collector] # pc[Collector] \/ call'[Collector] # call[Collector]

\* The session was written at most the TTL ago.
Live(st, s, t) == Exists(st, s) /\ ~Expired(st, s, t)

(* C29: a sweep never deletes a live session: the step of set_context and  *)
(* update_partial_context that stamps the session sets its timestamp to    *)
(* the time of the write; a step of the sweep removes a session only if    *)
(* the time since its last write exceeds the TTL, and leaves every session *)
(* written at most the TTL ago in the store with all its data, whatever    *)
(* the foreground thread did between the sweep's clock reading and its     *)
(* scan.                                                                   *)
C29_SweepSparesLiveSessions ==
    [][/\ (pc[Foreground] = "stamp" /\ pc'[Foreground] = "unlock")
          => Timestamp(SessionOf(store', call[Foreground].session)) = time
       /\ (pc[Collector] \in InsideCollector /\ CollectorStep)
          => \A s \in Sessions :
                /\ (Exists(store, s) /\ ~Exists(store', s)) => Expired(store, s, time)
                /\ Live(store, s, time)
                   => Exists(store', s) /\ SessionOf(store', s) = SessionOf(store, s)]_vars

\* The sweep, about to delete the expired s1, has passed over s2, which was
\* written with data no earlier than the sweep's clock reading.
C29_Witness ==
    /\ pc[Collector] = "delete"
    /\ call[Collector].expired = <<"s1">>
    /\ Exists(store, "s1")
    /\ Expired(store, "s1", time)
    /\ Live(store, "s2", time)
    /\ Has(SessionOf(store, "s2"), "a")
    /\ Timestamp(SessionOf(store, "s2")) >= call[Collector].now

---------------------------------------------------------------------------
(* Session store, listener specification: a listener is registered that,   *)
(* when called with a garbage_collected event, may call get_context or     *)
(* delete_context of the store; on every other event it returns at once.   *)
(* gc_worker calls _emit_event inside its with self._lock block, and       *)
(* _emit_event calls the listener on the sweep's own thread.  self._lock   *)
(* is a threading.Lock: it has no owner and no count, so whoever asks for  *)
(* it waits until it is free.  The foreground thread runs set_context,     *)
(* get_context and delete_context, their locked blocks in one step each.   *)

\* The calls of the foreground thread.
StoreCalls ==
    {[op |-> "set_context", session |-> s, key |-> k, value |-> v] :
        s \in Sessions, k \in ContextKeys, v \in ContextValues}
      \cup {[op |-> "get_context", session |-> s] : s \in Sessions}
      \cup {[op |-> "delete_context", session |-> s] : s \in Sessions}

\* What the listener does with a garbage_collected event.
ListenerReturns == [op |-> "return"]
ListenerCalls ==
    {[op |-> "get_context", session |-> s] : s \in Sessions}
      \cup {[op |-> "delete_context", session |-> s] : s \in Sessions}

\* The store call a thread is in: its own, or its listener's.
CurrentCall(t) == IF t = Collector THEN call[t].inner ELSE call[t]

\* The foreground thread enters set_context, get_context or delete_context.
store_call(c) ==
    /\ pc[Foreground] = "idle"
    /\ call' = [call EXCEPT ![Foreground] = c]
    /\ Goto(Foreground, "call_lock")
    /\ UNCHANGED <<store, time, lock, outcome, ctxConcFrame>>

\* with self._lock, lines 113, 155, 163, on whichever thread runs the call.
call_lock(t) ==
    /\ pc[t] = "call_lock"
    /\ Acquirable(lock)
    /\ lock' = t
    /\ Goto(t, "call_body")
    /\ UNCHANGED <<store, time, call, outcome, ctxConcFrame>>

\* The locked blocks: lines 114-118, 156, 164-165.
call_body(t) ==
    LET c == CurrentCall(t) IN
    /\ pc[t] = "call_body"
    /\ store' = CASE c.op = "set_context" ->
                       set_context_result(store, c.session, c.key, c.value, time)
                  [] c.op = "delete_context" -> delete_context_result(store, c.session)
                  [] OTHER -> store
    /\ Goto(t, "call_unlock")
    /\ UNCHANGED <<time, lock, call, outcome, ctxConcFrame>>

\* The end of the with block.  The call's own event goes to the listener,
\* which returns at once; a listener's call returns into gc_worker's loop.
call_unlock(t) ==
    /\ pc[t] = "call_unlock"
    /\ lock' = "free"
    /\ Goto(t, IF t = Collector THEN "delete" ELSE "idle")
    /\ UNCHANGED <<store, time, call, outcome, ctxConcFrame>>

\* gc_worker, lines 185-186: one round of the deletion loop up to the call
\* of _emit_event, or the end of the loop.
gc_delete_one ==
    LET expired == call[Collector].expired IN
    /\ pc[Collector] = "delete"
    /\ IF expired = <<>>
       THEN Goto(Collector, "unlock") /\ UNCHANGED <<store, call, lock, outcome>>
       ELSE IF Head(expired) \notin Names(store)
       THEN RaiseInside(Collector, KeyError, "dead") /\ UNCHANGED <<store, call>>
       ELSE /\ store' = DelItem(store, Head(expired))
            /\ call' = [call EXCEPT ![Collector].expired = Tail(expired)]
            /\ Goto(Collector, "emit")
            /\ UNCHANGED <<lock, outcome>>
    /\ UNCHANGED <<time, ctxConcFrame>>

\* gc_worker, line 188, and _emit_event, lines 72-77: the listener is called
\* inside the sweep's with block; it returns, or calls the store.
gc_emit(listener) ==
    /\ pc[Collector] = "emit"
    /\ IF listener = ListenerReturns
       THEN Goto(Collector, "delete") /\ UNCHANGED call
       ELSE /\ call' = [call EXCEPT ![Collector] =
                           [op |-> "gc_worker", now |-> call[Collector].now,
                            expired |-> call[Collector].expired, inner |-> listener]]
            /\ Goto(Collector, "call_lock")
    /\ UNCHANGED <<store, time, lock, outcome, ctxConcFrame>>

CollectorNext ==
    \/ gc_now
    \/ gc_lock
    \/ gc_scan
    \/ gc_delete_one
    \/ \E listener \in ListenerCalls \cup {ListenerReturns} : gc_emit(listener)
    \/ call_lock(Collector)
    \/ call_body(Collector)
    \/ call_unlock(Collector)
    \/ gc_unlock

NextReentrant ==
    \/ ctx_tick
    \/ \E c \in StoreCalls : store_call(c)
    \/ \E t \in CtxThreads : call_lock(t)
    \/ \E t \in CtxThreads : call_body(t)
    \/ \E t \in CtxThreads : call_unlock(t)
    \/ gc_now
    \/ gc_lock
    \/ gc_scan
    \/ gc_delete_one
    \/ \E listener \in ListenerCalls \cup {ListenerReturns} : gc_emit(listener)
    \/ gc_unlock

(* Both threads are scheduled: the sweep takes its next step whenever it   *)
(* has one, and a foreground call that finds the lock free again and again *)
(* gets it in the end.                                                     *)
SpecReentrant ==
    /\ InitCtxConc
    /\ [][NextReentrant]_vars
    /\ WF_vars(CollectorNext)
    /\ WF_vars(call_body(Foreground) \/ call_unlock(Foreground))
    /\ SF_vars(call_lock(Foreground))

(* C30: the sweep cannot deadlock the store: whenever the sweep holds the  *)
(* lock it releases it later, also when the listener called with the       *)
(* garbage_collected event calls get_context or delete_context, and a      *)
(* foreground call waiting for the lock returns later.                     *)
C30_SweepReleasesLock ==
    /\ (lock = Collector) ~> (lock = "free")
    /\ (pc[Foreground] = "call_lock") ~> (pc[Foreground] = "idle")

====
